---------------------------- MODULE Spec2Model ----------------------------
(***************************************************************************)
(* Model of the IEEE 802.15.4 stream adapter                               *)
(* (ESP32TransceiverStreamIEEE802_15_4), its transceiver, the frame codec  *)
(* (Frame::build / Frame::parse) and the RingBuffer.                       *)
(*                                                                         *)
(* Two stream objects are modelled: a sender (its write/flush path and its *)
(* transceiver's outbound frame) and a receiver (its receive/read path).   *)
(* The radio between them takes the frames handed to it one after the      *)
(* other, may hand each to the receiver's onRxDone, and reports each       *)
(* transmit attempt once, by onTransmitDone or onTransmitFailed.           *)
(***************************************************************************)
EXTENDS Integers, Sequences, FiniteSets, TLC

(***************************************************************************)
(* Bounds of the model.  MTU and RxBufferSize are the program's 116 and    *)
(* 1024 scaled down; the code never depends on their values.               *)
(***************************************************************************)
\* ESP32TransceiverStreamIEEE802_15_4::MTU (116 in the source), scaled down
MTU == 2
\* capacity of rx_buffer after begin() (1024 in the source), scaled down
RxBufferSize == 2
\* number of bytes the sending application writes in a run
MaxWrites == 3
\* largest configured send_retry_count
MaxRetry == 2
\* transmit attempts the radio holds before it refuses another
MaxInFlight == 2
\* number of frames an arbitrary peer injects in a run (SpecRecv)
MaxFrames == 3

\* number of begin() calls in a run, the first included (SpecSession)
MaxSessions == 2

\* incrementSequenceNumber: sequenceNumber % 256; uint8_t wrap-around
SeqMod == 256
\* frames the message buffer created in begin() holds
MessageBufferFrames == 1
\* stands for SIZE_MAX, what the size_t expression data[0] - 1 wraps to for
\* data[0] = 0 (the largest integer the model checker handles)
SizeMax == 2147483647

\* largest number of transmit attempts of one flush after which the radio
\* no longer lets the acknowledgment wait time out
MaxAttempts == 3
\* number of calls the sending application makes in a run
MaxCalls == 2
\* largest capacity of the RingBuffer driven on its own (SpecRing)
MaxRingSize == 3
\* number of bytes offered to that RingBuffer between two resets of the run
MaxRingBytes == 5

\* the values a byte of dead stack memory can read as, when it no longer
\* holds the payload byte a dangling pointer refers to
StaleBytes == {170}

Min(a, b) == IF a < b THEN a ELSE b

(***************************************************************************)
(* RingBuffer (RingBuffer.h).  A buffer is a record                        *)
(* [buffer, capacity, head, tail, count]; buffer[i + 1] is the C++         *)
(* buffer[i].                                                               *)
(***************************************************************************)
\* a clear that resets the count only
RB_clearCount(rb) == [rb EXCEPT !.count = 0]

RB_clear(rb) == [rb EXCEPT !.head = 0, !.tail = 0, !.count = 0]

\* std::vector::resize keeps the leading elements and zero-fills new ones
RB_resize(rb, new_size) ==
  RB_clear([rb EXCEPT
    !.buffer = [i \in 1..new_size |->
                  IF i <= Len(rb.buffer) THEN rb.buffer[i] ELSE 0],
    !.capacity = new_size])

RB_new(size) ==
  RB_resize([buffer |-> <<>>, capacity |-> 0, head |-> 0, tail |-> 0,
             count |-> 0], size)

RB_isFull(rb) == rb.count = rb.capacity

RB_isEmpty(rb) == rb.count = 0

RB_available(rb) == rb.count

RB_availableForWrite(rb) == rb.capacity - rb.count

RB_size(rb) == rb.capacity

\* the value write() returns
RB_writeOk(rb) == ~RB_isFull(rb)

\* a write that takes the byte whether or not the buffer is full
RB_writeAlways(rb, byte) ==
  IF rb.capacity = 0 THEN [rb EXCEPT !.count = rb.count + 1]
  ELSE [rb EXCEPT !.buffer[rb.tail + 1] = byte,
                  !.tail = (rb.tail + 1) % rb.capacity,
                  !.count = rb.count + 1]

\* the buffer after write(byte)
RB_write(rb, byte) ==
  IF RB_isFull(rb) THEN rb
  ELSE [rb EXCEPT !.buffer[rb.tail + 1] = byte,
                  !.tail = (rb.tail + 1) % rb.capacity,
                  !.count = rb.count + 1]

\* a writeArray that stops after the first byte
RB_writeArrayFirst(rb, data) ==
  IF data = <<>> THEN rb ELSE RB_write(rb, Head(data))

\* the buffer after writeArray(data, len): stops at the first failed write
RECURSIVE RB_writeArray(_, _)
RB_writeArray(rb, data) ==
  IF data = <<>> \/ RB_isFull(rb) THEN rb
  ELSE RB_writeArray(RB_write(rb, Head(data)), Tail(data))

\* the count writeArray(data, len) returns: the writes that returned true
RECURSIVE RB_writeArrayCount(_, _)
RB_writeArrayCount(rb, data) ==
  IF data = <<>> \/ ~RB_writeOk(rb) THEN 0
  ELSE 1 + RB_writeArrayCount(RB_write(rb, Head(data)), Tail(data))

\* a read that returns the byte written last
RB_readNewest(rb) ==
  IF RB_available(rb) > 0
  THEN rb.buffer[((rb.tail + rb.capacity - 1) % rb.capacity) + 1]
  ELSE 0

\* the value read() returns: 0 when nothing is available
RB_readValue(rb) == IF RB_available(rb) > 0 THEN rb.buffer[rb.head + 1] ELSE 0

\* the buffer after read()
RB_read(rb) ==
  IF RB_available(rb) > 0
  THEN [rb EXCEPT !.head = (rb.head + 1) % rb.capacity,
                  !.count = rb.count - 1]
  ELSE rb

\* the bytes readArray(dest, len) stores in dest
RECURSIVE RB_readArrayData(_, _)
RB_readArrayData(rb, len) ==
  IF len <= 0 \/ RB_available(rb) <= 0 THEN <<>>
  ELSE <<RB_readValue(rb)>> \o RB_readArrayData(RB_read(rb), len - 1)

\* a readArray that consumes one byte at most
RB_readArrayOne(rb, len) == IF len <= 0 THEN rb ELSE RB_read(rb)

\* the buffer after readArray(dest, len)
RECURSIVE RB_readArray(_, _)
RB_readArray(rb, len) ==
  IF len <= 0 \/ RB_available(rb) <= 0 THEN rb
  ELSE RB_readArray(RB_read(rb), len - 1)

\* peek(out): the value it returns, and out (left as it was when empty)
RB_peekOk(rb) == RB_available(rb) > 0

RB_peekValue(rb, out) == IF RB_available(rb) > 0 THEN rb.buffer[rb.head + 1] ELSE out

\* the readable content, oldest byte first
RB_content(rb) == RB_readArrayData(rb, rb.count)

(***************************************************************************)
(* Frame codec (Frame.h, Frame.cpp).                                       *)
(***************************************************************************)
NONE == 0
RESERVED == 1
SHORT == 2
EXTENDED == 3

IEEE802154_FCF_SIZE == 2
IEEE802154_PAN_ID_LEN == 2
IEEE802154_MAX_ADDR_LEN == 8

\* FrameControlField with its default member initialisers
DefaultFcf ==
  [frameType |-> 1, securityEnabled |-> 0, framePending |-> 0,
   ackRequest |-> 0, panIdCompression |-> 0, reserved |-> 0,
   sequenceNumberSuppression |-> 0, informationElementsPresent |-> 0,
   destAddrMode |-> 0, frameVersion |-> 1, srcAddrMode |-> 0]

\* the two bytes memcpy takes from the bit-field struct (LSB first)
FcfBytes(fcf) ==
  << fcf.frameType + 8 * fcf.securityEnabled + 16 * fcf.framePending
       + 32 * fcf.ackRequest + 64 * fcf.panIdCompression + 128 * fcf.reserved,
     fcf.sequenceNumberSuppression + 2 * fcf.informationElementsPresent
       + 4 * fcf.destAddrMode + 16 * fcf.frameVersion + 64 * fcf.srcAddrMode >>

\* the bit-field struct memcpy fills from two bytes
FcfFromBytes(b0, b1) ==
  [frameType |-> b0 % 8,
   securityEnabled |-> (b0 \div 8) % 2,
   framePending |-> (b0 \div 16) % 2,
   ackRequest |-> (b0 \div 32) % 2,
   panIdCompression |-> (b0 \div 64) % 2,
   reserved |-> (b0 \div 128) % 2,
   sequenceNumberSuppression |-> b1 % 2,
   informationElementsPresent |-> (b1 \div 2) % 2,
   destAddrMode |-> (b1 \div 4) % 4,
   frameVersion |-> (b1 \div 16) % 4,
   srcAddrMode |-> (b1 \div 64) % 4]

ZeroAddress == [i \in 1..IEEE802154_MAX_ADDR_LEN |-> 0]

\* struct Frame with its default member initialisers; payload = <<>> is nullptr
DefaultFrame ==
  [fcf |-> DefaultFcf, sequenceNumber |-> 0, destPanId |-> 0,
   destAddress |-> ZeroAddress, srcPanId |-> 0, srcAddress |-> ZeroAddress,
   destAddrLen |-> 0, srcAddrLen |-> 0, payloadLen |-> 0, payload |-> <<>>]

\* address lengths that take every mode but NONE for SHORT
AddrLenShort(mode) == IF mode = NONE THEN 0 ELSE 2

\* length of an address of the given mode, as parse and build compute it
AddrLen(mode) == IF mode = SHORT THEN 2 ELSE IF mode = EXTENDED THEN 8 ELSE 0

\* Frame::build: the bytes written to buffer, buffer[0] first
Build(frame) ==
  LET hasDestAddr == frame.fcf.destAddrMode # NONE
      hasSrcAddr == frame.fcf.srcAddrMode # NONE
      seqPart == IF frame.fcf.sequenceNumberSuppression = 0
                 THEN <<frame.sequenceNumber>> ELSE <<>>
      destPan == IF hasDestAddr
                 THEN <<frame.destPanId % 256, (frame.destPanId \div 256) % 256>>
                 ELSE <<>>
      destAddr == SubSeq(frame.destAddress, 1, AddrLen(frame.fcf.destAddrMode))
      srcPan == IF hasSrcAddr /\ frame.fcf.panIdCompression = 0
                THEN <<frame.srcPanId % 256, (frame.srcPanId \div 256) % 256>>
                ELSE <<>>
      srcAddr == SubSeq(frame.srcAddress, 1, AddrLen(frame.fcf.srcAddrMode))
      pay == IF frame.payloadLen > 0 /\ frame.payload # <<>>
             THEN SubSeq(frame.payload, 1, frame.payloadLen) ELSE <<>>
      body == FcfBytes(frame.fcf) \o seqPart \o destPan \o destAddr
                \o srcPan \o srcAddr \o pay \o <<0>>
      offset == 1 + Len(body)
  IN  <<offset % 256>> \o body

\* the value Frame::build returns
BuildLen(frame) == Len(Build(frame))

\* data[i] of a raw frame; a byte never written by the sender reads as 0
At(data, i) == IF i + 1 <= Len(data) THEN data[i + 1] ELSE 0

\* size_t frame_len = data[0] - 1
FrameLen(data) == IF At(data, 0) = 0 THEN SizeMax ELSE At(data, 0) - 1

\* Frame::parse works through the stages below; each takes and returns
\* [ok, frame, offset]: ok is FALSE once parse has returned false, frame is
\* the Frame as written so far, offset the read position.

\* frame_len, offset = 1 and the FCF
ParseFcf(data, old) ==
  IF 1 + IEEE802154_FCF_SIZE > FrameLen(data)
  THEN [ok |-> FALSE, frame |-> old, offset |-> 1]
  ELSE [ok |-> TRUE,
        frame |-> [old EXCEPT !.fcf = FcfFromBytes(At(data, 1), At(data, 2))],
        offset |-> 1 + IEEE802154_FCF_SIZE]

ParseSequenceNumber(data, s) ==
  IF ~s.ok THEN s
  ELSE IF s.frame.fcf.sequenceNumberSuppression = 0
  THEN IF s.offset + 1 > FrameLen(data) THEN [s EXCEPT !.ok = FALSE]
       ELSE [s EXCEPT !.frame.sequenceNumber = At(data, s.offset),
                      !.offset = s.offset + 1]
  ELSE [s EXCEPT !.frame.sequenceNumber = 0]

\* a destination PAN ID read high byte first
ParseDestPanIdBigEndian(data, s) ==
  IF ~s.ok THEN s
  ELSE IF s.frame.fcf.destAddrMode # NONE
  THEN IF s.offset + IEEE802154_PAN_ID_LEN > FrameLen(data)
       THEN [s EXCEPT !.ok = FALSE]
       ELSE [s EXCEPT !.frame.destPanId =
                         At(data, s.offset) * 256 + At(data, s.offset + 1),
                      !.offset = s.offset + IEEE802154_PAN_ID_LEN]
  ELSE [s EXCEPT !.frame.destPanId = 0]

ParseDestPanId(data, s) ==
  IF ~s.ok THEN s
  ELSE IF s.frame.fcf.destAddrMode # NONE
  THEN IF s.offset + IEEE802154_PAN_ID_LEN > FrameLen(data)
       THEN [s EXCEPT !.ok = FALSE]
       ELSE [s EXCEPT !.frame.destPanId =
                         At(data, s.offset + 1) * 256 + At(data, s.offset),
                      !.offset = s.offset + IEEE802154_PAN_ID_LEN]
  ELSE [s EXCEPT !.frame.destPanId = 0]

ParseDestAddress(data, s) ==
  IF ~s.ok THEN s
  ELSE IF AddrLen(s.frame.fcf.destAddrMode) > 0
  THEN IF s.offset + AddrLen(s.frame.fcf.destAddrMode) > FrameLen(data)
       THEN [s EXCEPT !.ok = FALSE,
                      !.frame.destAddrLen = AddrLen(s.frame.fcf.destAddrMode)]
       ELSE [s EXCEPT
               !.frame.destAddrLen = AddrLen(s.frame.fcf.destAddrMode),
               !.frame.destAddress =
                  [i \in 1..IEEE802154_MAX_ADDR_LEN |->
                     IF i <= AddrLen(s.frame.fcf.destAddrMode)
                     THEN At(data, s.offset + i - 1)
                     ELSE s.frame.destAddress[i]],
               !.offset = s.offset + AddrLen(s.frame.fcf.destAddrMode)]
  ELSE [s EXCEPT !.frame.destAddrLen = 0, !.frame.destAddress = ZeroAddress]

\* a source PAN ID read from the wire whether or not it is compressed
ParseSrcPanIdAlwaysRead(data, s) ==
  IF ~s.ok THEN s
  ELSE IF s.frame.fcf.srcAddrMode # NONE
  THEN IF s.offset + IEEE802154_PAN_ID_LEN > FrameLen(data)
       THEN [s EXCEPT !.ok = FALSE]
       ELSE [s EXCEPT !.frame.srcPanId =
                         At(data, s.offset + 1) * 256 + At(data, s.offset),
                      !.offset = s.offset + IEEE802154_PAN_ID_LEN]
  ELSE [s EXCEPT !.frame.srcPanId = 0]

ParseSrcPanId(data, s) ==
  IF ~s.ok THEN s
  ELSE IF s.frame.fcf.srcAddrMode # NONE /\ s.frame.fcf.panIdCompression = 0
  THEN IF s.offset + IEEE802154_PAN_ID_LEN > FrameLen(data)
       THEN [s EXCEPT !.ok = FALSE]
       ELSE [s EXCEPT !.frame.srcPanId =
                         At(data, s.offset + 1) * 256 + At(data, s.offset),
                      !.offset = s.offset + IEEE802154_PAN_ID_LEN]
  ELSE IF s.frame.fcf.srcAddrMode # NONE /\ s.frame.fcf.panIdCompression # 0
  THEN [s EXCEPT !.frame.srcPanId = s.frame.destPanId]
  ELSE [s EXCEPT !.frame.srcPanId = 0]

ParseSrcAddress(data, s) ==
  IF ~s.ok THEN s
  ELSE IF AddrLen(s.frame.fcf.srcAddrMode) > 0
  THEN IF s.offset + AddrLen(s.frame.fcf.srcAddrMode) > FrameLen(data)
       THEN [s EXCEPT !.ok = FALSE,
                      !.frame.srcAddrLen = AddrLen(s.frame.fcf.srcAddrMode)]
       ELSE [s EXCEPT
               !.frame.srcAddrLen = AddrLen(s.frame.fcf.srcAddrMode),
               !.frame.srcAddress =
                  [i \in 1..IEEE802154_MAX_ADDR_LEN |->
                     IF i <= AddrLen(s.frame.fcf.srcAddrMode)
                     THEN At(data, s.offset + i - 1)
                     ELSE s.frame.srcAddress[i]],
               !.offset = s.offset + AddrLen(s.frame.fcf.srcAddrMode)]
  ELSE [s EXCEPT !.frame.srcAddrLen = 0, !.frame.srcAddress = ZeroAddress]

\* payloadLen = frame_len - offset; payload points at data + offset (the
\* bytes it refers to, as far as the raw frame holds them), or is NULL
ParsePayload(data, s) ==
  IF ~s.ok THEN s
  ELSE [s EXCEPT
          !.frame.payloadLen = FrameLen(data) - s.offset,
          !.frame.payload =
             IF FrameLen(data) - s.offset > 0
             THEN [i \in 1..Min(FrameLen(data) - s.offset,
                                Len(data) - s.offset) |->
                     At(data, s.offset + i - 1)]
             ELSE <<>>]

\* Frame::parse(data) on a Frame holding old: [ok, frame, offset]
Parse(data, old) ==
  CHOOSE r \in
    {ParsePayload(data, s6) : s6 \in
      {ParseSrcAddress(data, s5) : s5 \in
        {ParseSrcPanId(data, s4) : s4 \in
          {ParseDestAddress(data, s3) : s3 \in
            {ParseDestPanId(data, s2) : s2 \in
              {ParseSequenceNumber(data, s1) : s1 \in
                {ParseFcf(data, old)}}}}}}} : TRUE

(***************************************************************************)
(* Address and the Frame setters (Frame.h).                                *)
(***************************************************************************)
\* Address(const uint8_t (&addr)[2]): a SHORT address
ShortAddress(b0, b1) ==
  [mode |-> SHORT,
   bytes |-> [i \in 1..IEEE802154_MAX_ADDR_LEN |->
                IF i = 1 THEN b0 ELSE IF i = 2 THEN b1 ELSE 0]]

\* Address(const uint8_t (&addr)[8]): an EXTENDED address
ExtendedAddress(bytes) == [mode |-> EXTENDED, bytes |-> bytes]

\* Address(): mode NONE, bytes zeroed
NoAddress == [mode |-> NONE, bytes |-> ZeroAddress]

BROADCAST_ADDRESS == ShortAddress(255, 255)

\* memcpy(dst, address.data(), n): the leading n bytes replaced
CopyAddress(dst, address, n) ==
  [i \in 1..IEEE802154_MAX_ADDR_LEN |->
     IF i <= n THEN address.bytes[i] ELSE dst[i]]

setSourceAddress(frame, address) ==
  LET n == IF address.mode = SHORT THEN 2 ELSE 8
  IN  [frame EXCEPT !.srcAddress = CopyAddress(frame.srcAddress, address, n),
                    !.srcAddrLen = n,
                    !.fcf.srcAddrMode = address.mode]

setDestinationAddress(frame, address) ==
  LET n == IF address.mode = SHORT THEN 2 ELSE 8
  IN  [frame EXCEPT !.destAddress = CopyAddress(frame.destAddress, address, n),
                    !.destAddrLen = n,
                    !.fcf.destAddrMode = address.mode]

setPayload(frame, data) ==
  [frame EXCEPT !.payload = data, !.payloadLen = Len(data)]

setPAN(frame, panId) ==
  [frame EXCEPT !.destPanId = panId, !.srcPanId = panId,
                !.fcf.panIdCompression = 1]

(***************************************************************************)
(* State.                                                                  *)
(***************************************************************************)
VARIABLES
  \* the sending stream and its transceiver
  frame_control_field,      \* transceiver.frame_control_field
  send_retry_count,
  tx_buffer,
  sequenceNumber,           \* transceiver.frame.sequenceNumber
  send_confirmation_state,
  last_tx_error,
  pc,                       \* where the application's write/flush call stands
  ret,                      \* where sendWithConfirmations returns to
  tmp, retry, attempt,      \* locals of sendWithConfirmations
  wbuf, wsize, written,     \* write(buffer, size): bytes left, size, written
  \* the radio
  inflight,                 \* attempts handed over and not yet reported
  \* the receiving stream and its transceiver
  rx_frame_control_field,   \* the receiver's transceiver.frame_control_field
  message_buffer,
  rx_buffer,
  frame,                    \* the stream's Frame member
  is_open_frame,
  last_seq,
  rpc, rsize,               \* readBytes(buffer, size) in progress
  \* history
  wcount,                   \* bytes the sending application has written
  calls,                    \* calls the sending application has made
  flushlog,                 \* the attempts of the current or last flush
  accepted,                 \* payload bytes of the frames receive() accepted
  app_read,                 \* bytes the receiving application has taken
  rcv,                      \* what the last receive() call did
  injected,                 \* frames injected by an arbitrary peer
  \* the units on their own
  ring,                     \* a RingBuffer driven call by call
  ringlog,                  \* the last call on ring and the bytes it took and gave
  codec,                    \* a Frame, the bytes built from it and their parse
  \* the session
  is_active,                \* transceiver.is_active: begin() succeeded, no end()
  sessions                  \* calls of begin() made

senderVars == <<frame_control_field, send_retry_count, tx_buffer,
                sequenceNumber, send_confirmation_state, last_tx_error,
                pc, ret, tmp, retry, attempt, wbuf, wsize, written,
                wcount, calls, flushlog>>
receiverVars == <<rx_frame_control_field, rx_buffer, frame, is_open_frame,
                  last_seq, rpc, rsize, accepted, app_read, rcv>>
unitVars == <<ring, ringlog, codec>>
sessionVars == <<is_active, sessions>>
vars == <<senderVars, inflight, message_buffer, receiverVars, injected,
          unitVars, sessionVars>>

WAITING_FOR_CONFIRMATION == "WAITING_FOR_CONFIRMATION"
CONFIRMATION_RECEIVED == "CONFIRMATION_RECEIVED"
CONFIRMATION_ERROR == "CONFIRMATION_ERROR"

\* configuration of the sending transceiver: PAN 0x1234, local address 00:01
PanID == 18 * 256 + 52
LocalAddress == ShortAddress(0, 1)
DestinationAddress == BROADCAST_ADDRESS

(***************************************************************************)
(* The transceiver's send path (ESP32TransceiverIEEE802_15_4.cpp).         *)
(***************************************************************************)
\* send(): the frame member as send() sets it up before transmit_channel
SendFrame(seq, data) ==
  setPayload(
    setDestinationAddress(
      setSourceAddress(
        setPAN([DefaultFrame EXCEPT !.fcf = frame_control_field,
                                    !.sequenceNumber = seq],
               PanID),
        LocalAddress),
      DestinationAddress),
    data)

\* transmit_channel after esp_ieee802154_transmit returned ESP_OK:
\* frame->sequenceNumber++ on a uint8_t
TransmitSequenceNumber(seq) == (seq + 1) % SeqMod

\* incrementSequenceNumber(n) on the uint8_t sequenceNumber
incrementSequenceNumber(seq, n) == ((seq + n) % SeqMod) % 256

\* a radio handed the frame with the sequence number already advanced
RadioTakeAdvanced(q, seq, data) ==
  Append(q, [bytes |-> Build(SendFrame(TransmitSequenceNumber(seq), data)),
             delivered |-> FALSE])

\* esp_ieee802154_transmit: the radio takes the built frame
RadioTake(q, seq, data) ==
  Append(q, [bytes |-> Build(SendFrame(seq, data)), delivered |-> FALSE])

isSendConfirmations == frame_control_field.ackRequest = 1

\* no flush made yet; handed collects the payloads of the frames passed to
\* send(), a retransmitted frame counted once
NoFlush == [mode |-> "none", seq0 |-> 0, attempts |-> <<>>, done |-> TRUE,
            handed |-> <<>>]

(***************************************************************************)
(* The sending stream: write, flush, sendWithoutConfirmations and          *)
(* sendWithConfirmations (ESP32TransceiverStreamIEEE802_15_4.h).           *)
(***************************************************************************)
\* the outcome recorded for the attempt a flush made last
LogOutcome(log, outcome) ==
  [log EXCEPT !.attempts[Len(log.attempts)].outcome = outcome]

LogAttempt(log, seq, data, ok) ==
  [log EXCEPT !.attempts =
     Append(log.attempts, [seq |-> seq, payload |-> data, taken |-> ok,
                           outcome |-> "pending"]),
              !.handed = IF log.attempts = <<>> THEN log.handed \o data
                         ELSE log.handed]

\* sendWithoutConfirmations on the drained bytes, the radio answering ok:
\* one transmit, the sequence number advanced when send() returned true
sendWithoutConfirmations(data, ok, retpc) ==
  /\ ok => is_active /\ Len(inflight) < MaxInFlight
  /\ inflight' = IF ok THEN RadioTake(inflight, sequenceNumber, data)
                 ELSE inflight
  /\ sequenceNumber' =
       IF ok
       THEN incrementSequenceNumber(TransmitSequenceNumber(sequenceNumber), 1)
       ELSE sequenceNumber
  /\ flushlog' = [mode |-> "noack", seq0 |-> sequenceNumber, done |-> TRUE,
                  attempts |-> <<[seq |-> sequenceNumber, payload |-> data,
                                  taken |-> ok,
                                  outcome |-> IF ok THEN "sent" ELSE "error"]>>,
                  handed |-> flushlog.handed \o data]
  /\ pc' = retpc
  /\ UNCHANGED <<send_confirmation_state, last_tx_error, ret, tmp, retry,
                 attempt>>

\* the entry of sendWithConfirmations: the buffer drained into tmp and the
\* retry budget loaded
sendWithConfirmationsEnter(data, retpc) ==
  /\ tmp' = data
  /\ retry' = send_retry_count
  /\ attempt' = 0
  /\ ret' = retpc
  /\ pc' = "f_send"
  /\ flushlog' = [mode |-> "ack", seq0 |-> sequenceNumber, done |-> FALSE,
                  attempts |-> <<>>, handed |-> flushlog.handed]
  /\ UNCHANGED <<sequenceNumber, send_confirmation_state, last_tx_error,
                 inflight>>

\* a flush that sends the staged bytes and leaves them in the TX buffer
flushKeeping(txb, retpc) ==
  LET data == RB_readArrayData(txb, RB_available(txb))
  IN  /\ tx_buffer' = txb
      /\ IF isSendConfirmations
         THEN sendWithConfirmationsEnter(data, retpc)
         ELSE \E ok \in BOOLEAN : sendWithoutConfirmations(data, ok, retpc)

\* a flush that leaves out the oldest byte of a full TX buffer
flushSkipping(txb, retpc) ==
  LET all == RB_readArrayData(txb, RB_available(txb))
      data == IF Len(all) > 1 THEN Tail(all) ELSE all
  IN  /\ tx_buffer' = RB_readArray(txb, RB_available(txb))
      /\ IF isSendConfirmations
         THEN sendWithConfirmationsEnter(data, retpc)
         ELSE \E ok \in BOOLEAN : sendWithoutConfirmations(data, ok, retpc)

\* flush() on the TX buffer txb; control continues at retpc when it returns
flush(txb, retpc) ==
  LET data == RB_readArrayData(txb, RB_available(txb))
  IN  /\ tx_buffer' = RB_readArray(txb, RB_available(txb))
      /\ IF isSendConfirmations
         THEN sendWithConfirmationsEnter(data, retpc)
         ELSE \E ok \in BOOLEAN : sendWithoutConfirmations(data, ok, retpc)

NoFlushCall ==
  UNCHANGED <<sequenceNumber, send_confirmation_state, last_tx_error, ret,
              tmp, retry, attempt, inflight, flushlog>>

\* write(byte) called by the application
AppWriteByte ==
  /\ pc = "idle" /\ wcount < MaxWrites /\ calls < MaxCalls
  /\ wcount' = wcount + 1
  /\ calls' = calls + 1
  /\ LET txb == RB_write(tx_buffer, wcount + 1)
     IN  IF RB_isFull(txb)
         THEN flush(txb, "idle")
         ELSE tx_buffer' = txb /\ pc' = "idle" /\ NoFlushCall
  /\ written' = IF RB_writeOk(tx_buffer) THEN 1 ELSE 0
  /\ UNCHANGED <<frame_control_field, send_retry_count, wbuf, wsize>>
  /\ UNCHANGED <<message_buffer, receiverVars, injected, unitVars,
              sessionVars>>

\* write(buffer, size) called by the application
AppWrite(size) ==
  /\ pc = "idle" /\ wcount + size <= MaxWrites /\ calls < MaxCalls
  /\ wcount' = wcount + size
  /\ calls' = calls + 1
  /\ wbuf' = [i \in 1..size |-> wcount + i]
  /\ wsize' = size
  /\ written' = 0
  /\ pc' = "wloop"
  /\ UNCHANGED tx_buffer /\ NoFlushCall
  /\ UNCHANGED <<frame_control_field, send_retry_count>>
  /\ UNCHANGED <<message_buffer, receiverVars, injected, unitVars,
              sessionVars>>

\* one turn of the loop of write(buffer, size): write(buffer[i])
WriteLoop ==
  /\ pc = "wloop"
  /\ IF wbuf = <<>>
     THEN /\ pc' = "wtail"
          /\ UNCHANGED <<tx_buffer, wbuf, written>> /\ NoFlushCall
     ELSE LET rc == RB_writeOk(tx_buffer)
              txb == RB_write(tx_buffer, Head(wbuf))
              next == IF rc THEN "wloop" ELSE "wtail"
          IN  /\ written' = IF rc THEN written + 1 ELSE written
              /\ wbuf' = IF rc THEN Tail(wbuf) ELSE wbuf
              /\ IF RB_isFull(txb)
                 THEN flush(txb, next)
                 ELSE tx_buffer' = txb /\ pc' = next /\ NoFlushCall
  /\ UNCHANGED <<frame_control_field, send_retry_count, wsize, wcount, calls>>
  /\ UNCHANGED <<message_buffer, receiverVars, injected, unitVars,
              sessionVars>>

\* the end of write(buffer, size): if (size < MTU) flush()
WriteTail ==
  /\ pc = "wtail"
  /\ IF wsize < MTU
     THEN flush(tx_buffer, "idle")
     ELSE pc' = "idle" /\ UNCHANGED tx_buffer /\ NoFlushCall
  /\ UNCHANGED <<frame_control_field, send_retry_count, wbuf, wsize, written,
                 wcount, calls>>
  /\ UNCHANGED <<message_buffer, receiverVars, injected, unitVars,
              sessionVars>>

\* flush() called by the application
AppFlush ==
  /\ pc = "idle" /\ calls < MaxCalls
  /\ calls' = calls + 1
  /\ flush(tx_buffer, "idle")
  /\ UNCHANGED <<frame_control_field, send_retry_count, wbuf, wsize, written,
                 wcount>>
  /\ UNCHANGED <<message_buffer, receiverVars, injected, unitVars,
              sessionVars>>

\* sendWithConfirmations, top of the do loop: the state reset and send()
\* called, the radio answering ok
FlushSend ==
  /\ pc = "f_send"
  /\ \E ok \in BOOLEAN :
       /\ ok => is_active /\ Len(inflight) < MaxInFlight
       /\ send_confirmation_state' =
            IF ok THEN WAITING_FOR_CONFIRMATION ELSE CONFIRMATION_ERROR
       /\ inflight' = IF ok THEN RadioTake(inflight, sequenceNumber, tmp)
                      ELSE inflight
       /\ sequenceNumber' = IF ok THEN TransmitSequenceNumber(sequenceNumber)
                            ELSE sequenceNumber
       /\ flushlog' = LogAttempt(flushlog, sequenceNumber, tmp, ok)
  /\ pc' = "f_wait"
  /\ UNCHANGED <<frame_control_field, send_retry_count, tx_buffer,
                 last_tx_error, ret, tmp, retry, attempt, wbuf, wsize,
                 written, wcount, calls>>
  /\ UNCHANGED <<message_buffer, receiverVars, injected, unitVars,
              sessionVars>>

\* the switch of sendWithConfirmations on the confirmation state st
ConfirmationSwitch(st) ==
  CASE st = CONFIRMATION_ERROR ->
         /\ retry' = retry - 1
         /\ IF retry - 1 <= 0
            THEN /\ sequenceNumber' = incrementSequenceNumber(sequenceNumber, 1)
                 /\ pc' = ret
                 /\ flushlog' = [LogOutcome(flushlog, "error") EXCEPT
                                   !.done = TRUE]
            ELSE /\ pc' = "f_cond"
                 /\ flushlog' = LogOutcome(flushlog, "error")
                 /\ UNCHANGED sequenceNumber
    [] st = CONFIRMATION_RECEIVED ->
         /\ sequenceNumber' = incrementSequenceNumber(sequenceNumber, 1)
         /\ pc' = "f_cond"
         /\ flushlog' = LogOutcome(flushlog, "received")
         /\ UNCHANGED retry
    [] OTHER ->
         /\ retry' = retry - 1
         /\ pc' = "f_cond"
         /\ flushlog' = LogOutcome(flushlog, "timeout")
         /\ UNCHANGED sequenceNumber

\* the wait loop left because a notification (or the failed send) set the state
FlushDecide ==
  /\ pc = "f_wait"
  /\ send_confirmation_state # WAITING_FOR_CONFIRMATION
  /\ ConfirmationSwitch(send_confirmation_state)
  /\ UNCHANGED <<frame_control_field, send_retry_count, tx_buffer,
                 send_confirmation_state, last_tx_error, ret, tmp, attempt,
                 wbuf, wsize, written, wcount, calls>>
  /\ UNCHANGED <<inflight, message_buffer, receiverVars, injected, unitVars,
              sessionVars>>

\* the wait loop left because millis() reached the timeout
FlushTimeout ==
  /\ pc = "f_wait"
  /\ send_confirmation_state = WAITING_FOR_CONFIRMATION
  /\ attempt < MaxAttempts
  /\ ConfirmationSwitch(send_confirmation_state)
  /\ UNCHANGED <<frame_control_field, send_retry_count, tx_buffer,
                 send_confirmation_state, last_tx_error, ret, tmp, attempt,
                 wbuf, wsize, written, wcount, calls>>
  /\ UNCHANGED <<inflight, message_buffer, receiverVars, injected, unitVars,
              sessionVars>>

\* ++attempt and the loop condition, read after the delay of the switch
FlushLoop ==
  /\ pc = "f_cond"
  /\ attempt' = attempt + 1
  /\ IF send_confirmation_state = CONFIRMATION_ERROR
     THEN pc' = "f_send" /\ UNCHANGED flushlog
     ELSE pc' = ret /\ flushlog' = [flushlog EXCEPT !.done = TRUE]
  /\ UNCHANGED <<frame_control_field, send_retry_count, tx_buffer,
                 sequenceNumber, send_confirmation_state, last_tx_error, ret,
                 tmp, retry, wbuf, wsize, written, wcount, calls>>
  /\ UNCHANGED <<inflight, message_buffer, receiverVars, injected, unitVars,
              sessionVars>>

(***************************************************************************)
(* The radio: one report per attempt, in the order the attempts were taken.*)
(***************************************************************************)
\* ieee802154_transceiver_tx_done_callback, through onTransmitDone
TxDone ==
  /\ inflight # <<>>
  /\ inflight' = Tail(inflight)
  /\ send_confirmation_state' = CONFIRMATION_RECEIVED
  /\ last_tx_error' = "ESP_IEEE802154_TX_ERR_NONE"
  /\ UNCHANGED <<frame_control_field, send_retry_count, tx_buffer,
                 sequenceNumber, pc, ret, tmp, retry, attempt, wbuf, wsize,
                 written, wcount, calls, flushlog>>
  /\ UNCHANGED <<message_buffer, receiverVars, injected, unitVars,
              sessionVars>>

\* ieee802154_transceiver_tx_failed_callback, through onTransmitFailed
TxFailed ==
  /\ inflight # <<>>
  /\ inflight' = Tail(inflight)
  /\ send_confirmation_state' = CONFIRMATION_ERROR
  /\ last_tx_error' = "ESP_IEEE802154_TX_ERR_NO_ACK"
  /\ UNCHANGED <<frame_control_field, send_retry_count, tx_buffer,
                 sequenceNumber, pc, ret, tmp, retry, attempt, wbuf, wsize,
                 written, wcount, calls, flushlog>>
  /\ UNCHANGED <<message_buffer, receiverVars, injected, unitVars,
              sessionVars>>

(***************************************************************************)
(* The receiving side: onRxDone, receive, read, readBytes, peek.           *)
(***************************************************************************)
\* onRxDone with a message buffer (the transceiver is active): frame[0]
\* bytes copied into a packet, the packet queued unless the message buffer
\* has no room for it (then it is discarded); without a message buffer the
\* frame is dropped
onRxDone(mb, raw) ==
  IF Len(mb) < MessageBufferFrames
  THEN Append(mb, [i \in 1..At(raw, 0) |-> At(raw, i - 1)])
  ELSE mb

isSequenceNumbers == rx_frame_control_field.sequenceNumberSuppression = 0

\* a receiver that takes no frame for a repetition
NeverDuplicate(seq, last) == FALSE

\* a receiver that takes only the sequence number following the last one
NotExpected(seq, last) == last # -1 /\ seq # (last + 1) % 256

\* receive(): seq repeats the last accepted sequence number
IsDuplicate(seq, last) == last # -1 /\ seq = last

\* frame.payload read after receive() returned: it points into the local
\* packet of the call that parsed the frame, so each byte reads either as
\* it was or as whatever the stack holds now (positions in stale)
DanglingPayload(f, stale) ==
  [i \in 1..Min(f.payloadLen, Len(f.payload)) |->
     IF i \in stale THEN CHOOSE b \in StaleBytes : TRUE ELSE f.payload[i]]

\* the payload of a frame parsed in this call
ParsedPayload(f) == SubSeq(f.payload, 1, Min(f.payloadLen, Len(f.payload)))

ReceiverState ==
  [message_buffer |-> message_buffer, rx_buffer |-> rx_buffer,
   frame |-> frame, is_open_frame |-> is_open_frame, last_seq |-> last_seq,
   rc |-> FALSE, kind |-> "none", seq |-> -1, payload |-> <<>>]

\* a receiver that forgets the last sequence number and what the RX buffer
\* holds when a frame fails to parse
parseFailedResets(p) ==
  [ReceiverState EXCEPT !.message_buffer = Tail(message_buffer),
                        !.frame = p.frame, !.kind = "parse_fail",
                        !.last_seq = -1,
                        !.rx_buffer = RB_clear(rx_buffer)]

\* receive() when frame.parse returned false: the packet is gone, the Frame
\* member holds what parse wrote before it failed
parseFailed(p) ==
  [ReceiverState EXCEPT !.message_buffer = Tail(message_buffer),
                        !.frame = p.frame, !.kind = "parse_fail"]

\* receive() from the parse on: p is what frame.parse made of the packet
receiveParsed(p) ==
  IF ~p.ok
  THEN parseFailed(p)
  ELSE IF isSequenceNumbers /\ IsDuplicate(p.frame.sequenceNumber, last_seq)
  THEN [ReceiverState EXCEPT !.message_buffer = Tail(message_buffer),
                             !.frame = p.frame, !.kind = "dup",
                             !.seq = p.frame.sequenceNumber]
  ELSE IF p.frame.payloadLen > RB_availableForWrite(rx_buffer)
  THEN [ReceiverState EXCEPT
          !.message_buffer = Tail(message_buffer),
          !.frame = p.frame,
          !.last_seq = IF isSequenceNumbers THEN p.frame.sequenceNumber
                       ELSE last_seq,
          !.seq = p.frame.sequenceNumber,
          !.payload = ParsedPayload(p.frame),
          !.is_open_frame = TRUE, !.kind = "deferred"]
  ELSE [ReceiverState EXCEPT
          !.message_buffer = Tail(message_buffer),
          !.frame = p.frame,
          !.last_seq = IF isSequenceNumbers THEN p.frame.sequenceNumber
                       ELSE last_seq,
          !.seq = p.frame.sequenceNumber,
          !.payload = ParsedPayload(p.frame),
          !.rx_buffer = RB_writeArray(rx_buffer, ParsedPayload(p.frame)),
          !.rc = TRUE, !.kind = "stored"]

\* a receive() that pulls a queued frame before it looks at the pending one
receivePullsFirst(stale) ==
  IF message_buffer # <<>>
  THEN CHOOSE r \in {receiveParsed(p) :
                       p \in {Parse(Head(message_buffer), frame)}} : TRUE
  ELSE IF ~is_open_frame
  THEN [ReceiverState EXCEPT !.kind = "empty"]
  ELSE IF frame.payloadLen > RB_availableForWrite(rx_buffer)
  THEN [ReceiverState EXCEPT !.kind = "pending_wait"]
  ELSE [ReceiverState EXCEPT
          !.rx_buffer = RB_writeArray(rx_buffer,
                                      DanglingPayload(frame, stale)),
          !.is_open_frame = FALSE,
          !.rc = TRUE, !.kind = "pending_drain"]

\* receive(): the receiver's state after the call, the value it returned
\* (rc), the path it took (kind) and the payload it accepted
receive(stale) ==
  IF is_open_frame
  THEN IF frame.payloadLen > RB_availableForWrite(rx_buffer)
       THEN [ReceiverState EXCEPT !.kind = "pending_wait"]
       ELSE [ReceiverState EXCEPT
               !.rx_buffer = RB_writeArray(rx_buffer,
                                           DanglingPayload(frame, stale)),
               !.is_open_frame = FALSE,
               !.rc = TRUE, !.kind = "pending_drain"]
  ELSE IF message_buffer = <<>>
  THEN [ReceiverState EXCEPT !.kind = "empty"]
  ELSE CHOOSE r \in {receiveParsed(p) :
                       p \in {Parse(Head(message_buffer), frame)}} : TRUE

\* the choices of what a dangling payload reads as in the coming call
StaleChoices ==
  IF is_open_frame /\ frame.payloadLen <= RB_availableForWrite(rx_buffer)
  THEN SUBSET (1..Min(frame.payloadLen, Len(frame.payload)))
  ELSE {{}}

\* what a receive() call leaves behind, apart from the RX buffer; rcv also
\* keeps the operation of the stream that made the call (op, "receive" for
\* a turn of readBytes that goes on), the size it was called with and the
\* value it returned
Received(r, op, size, value) ==
  /\ message_buffer' = r.message_buffer
  /\ frame' = r.frame
  /\ is_open_frame' = r.is_open_frame
  /\ last_seq' = r.last_seq
  /\ accepted' = accepted \o r.payload
  /\ rcv' = [kind |-> r.kind, rc |-> r.rc, seq |-> r.seq,
             op |-> op, size |-> size, ret |-> value,
             before |-> [rx_buffer |-> rx_buffer, last_seq |-> last_seq,
                         is_open_frame |-> is_open_frame],
             after |-> [rx_buffer |-> r.rx_buffer, last_seq |-> r.last_seq,
                        is_open_frame |-> r.is_open_frame]]

\* a read() that advances the outbound sequence number
AppReadAdvancing ==
  /\ rpc = "idle"
  /\ \E stale \in StaleChoices :
       \E r \in {receive(stale)} :
           /\ Received(r, "read", 1, RB_readValue(r.rx_buffer))
           /\ rx_buffer' = RB_read(r.rx_buffer)
           /\ app_read' = IF RB_available(r.rx_buffer) > 0
                          THEN Append(app_read, RB_readValue(r.rx_buffer))
                          ELSE app_read
  /\ sequenceNumber' = incrementSequenceNumber(sequenceNumber, 1)
  /\ UNCHANGED <<rx_frame_control_field, rpc, rsize>>
  /\ UNCHANGED <<frame_control_field, send_retry_count, tx_buffer,
                 send_confirmation_state, last_tx_error, pc, ret, tmp, retry,
                 attempt, wbuf, wsize, written, wcount, calls, flushlog>>
  /\ UNCHANGED <<inflight, injected, unitVars, sessionVars>>

\* read(): receive(), then rx_buffer.read()
AppRead ==
  /\ rpc = "idle"
  /\ \E stale \in StaleChoices :
       \E r \in {receive(stale)} :
           /\ Received(r, "read", 1, RB_readValue(r.rx_buffer))
           /\ rx_buffer' = RB_read(r.rx_buffer)
           /\ app_read' = IF RB_available(r.rx_buffer) > 0
                          THEN Append(app_read, RB_readValue(r.rx_buffer))
                          ELSE app_read
  /\ UNCHANGED <<rx_frame_control_field, rpc, rsize>>
  /\ UNCHANGED <<senderVars, inflight, injected, unitVars,
              sessionVars>>

\* one turn of the loop of readBytes(buffer, size), while (receive() &&
\* millis() < end), and, when the loop ends, rx_buffer.readArray
ReadBytesTurn(size) ==
  \E stale \in StaleChoices, timeout \in BOOLEAN :
    \E r \in {receive(stale)} :
        /\ IF r.rc /\ ~timeout
           THEN Received(r, "receive", size, 0)
           ELSE Received(r, "readBytes", size,
                         Len(RB_readArrayData(r.rx_buffer, size)))
        /\ IF r.rc /\ ~timeout
           THEN /\ rpc' = "readBytes"
                /\ rsize' = size
                /\ rx_buffer' = r.rx_buffer
                /\ UNCHANGED app_read
           ELSE /\ rpc' = "idle"
                /\ rsize' = 0
                /\ rx_buffer' = RB_readArray(r.rx_buffer, size)
                /\ app_read' = app_read \o RB_readArrayData(r.rx_buffer, size)

\* readBytes(buffer, size) called by the application
AppReadBytes(size) ==
  /\ rpc = "idle"
  /\ ReadBytesTurn(size)
  /\ UNCHANGED rx_frame_control_field
  /\ UNCHANGED <<senderVars, inflight, injected, unitVars,
              sessionVars>>

\* readBytes(buffer, size) going on
ReadBytesLoop ==
  /\ rpc = "readBytes"
  /\ ReadBytesTurn(rsize)
  /\ UNCHANGED rx_frame_control_field
  /\ UNCHANGED <<senderVars, inflight, injected, unitVars,
              sessionVars>>

\* peek(): receive() when the RX buffer is empty, then rx_buffer.peek on
\* c = 0; the value returned is c or -1
AppPeek ==
  /\ rpc = "idle"
  /\ \E stale \in StaleChoices :
       \E r \in {IF RB_isEmpty(rx_buffer) THEN receive(stale)
                 ELSE ReceiverState} :
           /\ Received(r, "peek", 1,
                       IF RB_peekOk(r.rx_buffer)
                       THEN RB_peekValue(r.rx_buffer, 0) ELSE -1)
           /\ rx_buffer' = r.rx_buffer
  /\ UNCHANGED <<rx_frame_control_field, rpc, rsize, app_read>>
  /\ UNCHANGED <<senderVars, inflight, injected, unitVars,
              sessionVars>>

\* the radio hands the frame of the oldest attempt to the receiver's onRxDone
Deliver ==
  /\ inflight # <<>>
  /\ ~inflight[1].delivered
  /\ inflight' = [inflight EXCEPT ![1].delivered = TRUE]
  /\ message_buffer' = IF is_active
                        THEN onRxDone(message_buffer, inflight[1].bytes)
                        ELSE message_buffer
  /\ UNCHANGED <<senderVars, receiverVars, injected, unitVars,
              sessionVars>>

\* sequence numbers an arbitrary peer puts in its frames
PeerSequenceNumbers == {0, 1, 255}

\* a frame as a peer's send() builds it
PeerFrame(seq, supp, data) ==
  setPayload(
    setDestinationAddress(
      setSourceAddress(
        setPAN([DefaultFrame EXCEPT
                  !.fcf.sequenceNumberSuppression = supp,
                  !.sequenceNumber = seq],
               PanID),
        LocalAddress),
      DestinationAddress),
    data)

\* an arbitrary peer's frame arrives at the receiver's onRxDone
Inject(seq, supp, len) ==
  /\ injected < MaxFrames
  /\ wcount + len <= MaxWrites
  /\ injected' = injected + 1
  /\ wcount' = wcount + len
  /\ message_buffer' =
       IF is_active
       THEN onRxDone(message_buffer,
                     Build(PeerFrame(seq, supp, [i \in 1..len |-> wcount + i])))
       ELSE message_buffer
  /\ UNCHANGED <<frame_control_field, send_retry_count, tx_buffer,
                 sequenceNumber, send_confirmation_state, last_tx_error,
                 pc, ret, tmp, retry, attempt, wbuf, wsize, written, calls,
                 flushlog>>
  /\ UNCHANGED <<inflight, receiverVars, unitVars, sessionVars>>

\* a peer's frame arrives with its length byte cut to declared, short of the
\* fields its FCF calls for
InjectCut(seq, declared) ==
  /\ injected < MaxFrames
  /\ injected' = injected + 1
  /\ \E raw \in {Build(PeerFrame(seq, 0, <<>>))} :
       /\ 1 <= declared /\ declared < raw[1] - 1
       /\ message_buffer' =
            IF is_active
            THEN onRxDone(message_buffer, [raw EXCEPT ![1] = declared])
            ELSE message_buffer
  /\ UNCHANGED <<senderVars, inflight, receiverVars, unitVars, sessionVars>>

(***************************************************************************)
(* The session: end() and a further begin() of the stream and of its       *)
(* transceiver.                                                            *)
(***************************************************************************)
\* end(): p_transceiver->end(), esp_ieee802154_disable returning ESP_OK; the
\* message buffer is deleted and the transceiver is no longer active
StreamEnd ==
  /\ pc = "idle" /\ rpc = "idle"
  /\ message_buffer' = <<>>
  /\ is_active' = FALSE
  /\ UNCHANGED <<senderVars, inflight, receiverVars, injected, unitVars,
                 sessions>>

\* setRxBufferSize(size) called by the application between two calls
SetRxBufferSize(size) ==
  /\ pc = "idle" /\ rpc = "idle"
  /\ rx_buffer' = RB_resize(rx_buffer, size)
  /\ UNCHANGED <<senderVars, inflight, message_buffer,
                 rx_frame_control_field, frame, is_open_frame, last_seq,
                 rpc, rsize, accepted, app_read, rcv, injected, unitVars,
                 sessionVars>>

\* begin(): the pending-frame flag and the last sequence number reset, the
\* RX buffer resized by setRxBufferSize(1024), the sequence number
\* incremented, and the
\* transceiver's begin(), which returns at once when it is active and
\* otherwise creates the message buffer and enables the radio (ok) or, the
\* radio failing, ends again
StreamBegin(ok) ==
  /\ pc = "idle" /\ rpc = "idle"
  /\ sessions < MaxSessions
  /\ sessions' = sessions + 1
  /\ is_open_frame' = FALSE
  /\ last_seq' = -1
  /\ rx_buffer' = RB_resize(rx_buffer, RxBufferSize)
  /\ sequenceNumber' = incrementSequenceNumber(sequenceNumber, 1)
  /\ IF is_active
     THEN UNCHANGED <<is_active, message_buffer>>
     ELSE is_active' = ok /\ message_buffer' = <<>>
  /\ UNCHANGED <<frame_control_field, send_retry_count, tx_buffer,
                 send_confirmation_state, last_tx_error, pc, ret, tmp, retry,
                 attempt, wbuf, wsize, written, wcount, calls, flushlog>>
  /\ UNCHANGED <<inflight, rx_frame_control_field, frame, rpc, rsize,
                 accepted, app_read, rcv, injected, unitVars>>

(***************************************************************************)
(* A RingBuffer on its own, driven call by call.  ringlog keeps the last   *)
(* call (op, its argument, the buffer before it, what it returned) and,    *)
(* since the last clear or resize, the bytes the buffer took (written),    *)
(* the bytes it gave back (taken) and the bytes offered to it (n).         *)
(***************************************************************************)
NoRingCall ==
  [op |-> "none", arg |-> <<>>, before |-> RB_new(0), ret |-> 0, out |-> 0,
   written |-> <<>>, taken |-> <<>>, n |-> 0]

RingCalled(op, arg, rc, out, bytesIn, bytesOut, n) ==
  ringlog' = [op |-> op, arg |-> arg, before |-> ring, ret |-> rc,
              out |-> out, written |-> bytesIn, taken |-> bytesOut, n |-> n]

StreamIdle == UNCHANGED <<senderVars, inflight, message_buffer, receiverVars,
                          injected, sessionVars>>

\* write(byte)
RingWrite ==
  /\ ringlog.n < MaxRingBytes
  /\ \E byte \in {ringlog.n + 1} :
       /\ ring' = RB_write(ring, byte)
       /\ RingCalled("write", <<byte>>, RB_writeOk(ring), 0,
                     IF RB_writeOk(ring) THEN Append(ringlog.written, byte)
                     ELSE ringlog.written,
                     ringlog.taken, ringlog.n + 1)
  /\ UNCHANGED codec /\ StreamIdle

\* writeArray(data, len)
RingWriteArray(len) ==
  /\ ringlog.n + len <= MaxRingBytes
  /\ \E data \in {[i \in 1..len |-> ringlog.n + i]} :
       \E count \in {RB_writeArrayCount(ring, data)} :
         /\ ring' = RB_writeArray(ring, data)
         /\ RingCalled("writeArray", data, count, 0,
                       ringlog.written \o SubSeq(data, 1, count),
                       ringlog.taken, ringlog.n + len)
  /\ UNCHANGED codec /\ StreamIdle

\* read()
RingRead ==
  /\ ring' = RB_read(ring)
  /\ RingCalled("read", <<>>, RB_readValue(ring), 0, ringlog.written,
                IF RB_available(ring) > 0
                THEN Append(ringlog.taken, RB_readValue(ring))
                ELSE ringlog.taken,
                ringlog.n)
  /\ UNCHANGED codec /\ StreamIdle

\* readArray(dest, len)
RingReadArray(len) ==
  /\ \E dest \in {RB_readArrayData(ring, len)} :
       /\ ring' = RB_readArray(ring, len)
       /\ RingCalled("readArray", <<len>>, Len(dest), dest, ringlog.written,
                     ringlog.taken \o dest, ringlog.n)
  /\ UNCHANGED codec /\ StreamIdle

\* peek(out), out holding -1 before the call
RingPeek ==
  /\ ring' = ring
  /\ RingCalled("peek", <<>>, RB_peekOk(ring), RB_peekValue(ring, -1),
                ringlog.written, ringlog.taken, ringlog.n)
  /\ UNCHANGED codec /\ StreamIdle

\* clear()
RingClear ==
  /\ ring' = RB_clear(ring)
  /\ RingCalled("clear", <<>>, 0, 0, <<>>, <<>>, ringlog.n)
  /\ UNCHANGED codec /\ StreamIdle

\* resize(new_size)
RingResize(new_size) ==
  /\ ring' = RB_resize(ring, new_size)
  /\ RingCalled("resize", <<new_size>>, 0, 0, <<>>, <<>>, ringlog.n)
  /\ UNCHANGED codec /\ StreamIdle

(***************************************************************************)
(* The codec on its own: a Frame value is built, the declared length of    *)
(* the built bytes is possibly cut, and the bytes are parsed.  codec keeps *)
(* the Frame (frame), the bytes (data), the declared length byte they were *)
(* built with (len), the result of parse (parsed) and how far it is (op).  *)
(***************************************************************************)
NoCodecCall == [op |-> "none"]

\* Frame values: every pair of address modes, sequence suppression and PAN
\* compression on and off, equal and different PAN IDs, payloads of 0..2
\* bytes
CodecFrames ==
  {[DefaultFrame EXCEPT
      !.fcf.destAddrMode = dm, !.fcf.srcAddrMode = sm,
      !.fcf.sequenceNumberSuppression = supp,
      !.fcf.panIdCompression = comp,
      !.sequenceNumber = seq,
      !.destPanId = pans[1], !.srcPanId = pans[2],
      !.destAddress = [i \in 1..IEEE802154_MAX_ADDR_LEN |-> 16 + i],
      !.srcAddress = [i \in 1..IEEE802154_MAX_ADDR_LEN |-> 32 + i],
      !.destAddrLen = AddrLen(dm), !.srcAddrLen = AddrLen(sm),
      !.payloadLen = Len(pay), !.payload = pay] :
     dm \in {NONE, RESERVED, SHORT, EXTENDED},
     sm \in {NONE, RESERVED, SHORT, EXTENDED},
     supp \in {0, 1}, comp \in {0, 1}, seq \in {0, 200},
     pans \in {<<0, 0>>, <<4660, 4660>>, <<4660, 22136>>},
     pay \in {<<>>, <<7>>, <<7, 0>>}}

\* a Frame object used before: what parse does not write is left in it
UsedFrame ==
  [DefaultFrame EXCEPT
     !.sequenceNumber = 99, !.destPanId = 43981, !.srcPanId = 43981,
     !.destAddress = [i \in 1..IEEE802154_MAX_ADDR_LEN |-> 64 + i],
     !.srcAddress = [i \in 1..IEEE802154_MAX_ADDR_LEN |-> 64 + i]]

\* build(buffer)
CodecBuild ==
  /\ codec.op = "frame"
  /\ codec' = [codec EXCEPT !.op = "built", !.data = Build(codec.frame),
                            !.len = BuildLen(codec.frame)]
  /\ UNCHANGED <<ring, ringlog>> /\ StreamIdle

\* the length byte of the built bytes lowered to declared
CodecCut(declared) ==
  /\ codec.op = "built"
  /\ declared < codec.len
  /\ codec' = [codec EXCEPT !.op = "cut", !.data[1] = declared]
  /\ UNCHANGED <<ring, ringlog>> /\ StreamIdle

\* parse(data) on a Frame object holding old
CodecParse(old) ==
  /\ codec.op \in {"built", "cut"}
  /\ codec' = [codec EXCEPT
                 !.op = IF codec.op = "built" THEN "parsed" ELSE "cutparsed",
                 !.parsed = Parse(codec.data, old)]
  /\ UNCHANGED <<ring, ringlog>> /\ StreamIdle


(***************************************************************************)
(* A Frame object under calls of its setters and of parse: codec keeps the *)
(* last call (op), the object after it (frame) and the bytes parsed (data).*)
(***************************************************************************)
\* the addresses the setters are called with
FrameAddresses ==
  {NoAddress, ShortAddress(1, 2), BROADCAST_ADDRESS,
   ExtendedAddress([i \in 1..IEEE802154_MAX_ADDR_LEN |-> 48 + i])}

\* the bytes parse is called with: built frames of every address mode
FrameBytes ==
  {Build(f) : f \in {g \in CodecFrames :
                       /\ g.fcf.sequenceNumberSuppression = 0
                       /\ g.fcf.panIdCompression = 0
                       /\ g.sequenceNumber = 0
                       /\ g.destPanId = 0 /\ g.srcPanId = 0
                       /\ g.payload = <<>>}}

\* frame.setSourceAddress(address)
FrameSetSourceAddress(address) ==
  /\ codec' = [op |-> "setSourceAddress",
               frame |-> setSourceAddress(codec.frame, address),
               data |-> <<>>]
  /\ UNCHANGED <<ring, ringlog>> /\ StreamIdle

\* frame.setDestinationAddress(address)
FrameSetDestinationAddress(address) ==
  /\ codec' = [op |-> "setDestinationAddress",
               frame |-> setDestinationAddress(codec.frame, address),
               data |-> <<>>]
  /\ UNCHANGED <<ring, ringlog>> /\ StreamIdle

\* frame.parse(data) returning true
FrameParse(data) ==
  /\ \E r \in {Parse(data, codec.frame)} :
       /\ r.ok
       /\ codec' = [op |-> "parse", frame |-> r.frame, data |-> data]
  /\ UNCHANGED <<ring, ringlog>> /\ StreamIdle

\* the units at rest while the streams run
UnitsIdle == ring = RB_new(0) /\ ringlog = NoRingCall /\ codec = NoCodecCall

(***************************************************************************)
(* Specifications.                                                         *)
(***************************************************************************)
\* begin() of the sending stream: the FCF as configured, the sequence
\* number incremented once from 0 (or where earlier traffic left it)
InitSender(fcfs, retries, seqs) ==
  /\ frame_control_field \in fcfs
  /\ send_retry_count \in retries
  /\ tx_buffer = RB_new(MTU)
  /\ sequenceNumber \in seqs
  /\ send_confirmation_state = WAITING_FOR_CONFIRMATION
  /\ last_tx_error = "ESP_IEEE802154_TX_ERR_NONE"
  /\ pc = "idle" /\ ret = "idle"
  /\ tmp = <<>> /\ retry = 0 /\ attempt = 0
  /\ wbuf = <<>> /\ wsize = 0 /\ written = 0
  /\ wcount = 0 /\ calls = 0
  /\ flushlog = NoFlush
  /\ inflight = <<>>
  /\ is_active = TRUE /\ sessions = 1

\* begin() of the receiving stream
InitReceiver(supps) ==
  /\ rx_frame_control_field \in
       {[DefaultFcf EXCEPT !.sequenceNumberSuppression = s] : s \in supps}
  /\ message_buffer = <<>>
  /\ rx_buffer = RB_resize(RB_new(RxBufferSize + MTU), RxBufferSize)
  /\ frame = DefaultFrame
  /\ is_open_frame = FALSE
  /\ last_seq = -1
  /\ rpc = "idle" /\ rsize = 0
  /\ accepted = <<>> /\ app_read = <<>>
  /\ rcv = [kind |-> "none", rc |-> FALSE, seq |-> -1,
            op |-> "none", size |-> 0, ret |-> 0,
            before |-> [rx_buffer |-> rx_buffer, last_seq |-> -1,
                        is_open_frame |-> FALSE],
            after |-> [rx_buffer |-> rx_buffer, last_seq |-> -1,
                       is_open_frame |-> FALSE]]
  /\ injected = 0

ConfiguredFcfs ==
  {[DefaultFcf EXCEPT !.ackRequest = a, !.sequenceNumberSuppression = s] :
     a \in {0, 1}, s \in {0, 1}}

\* the steps of sendWithConfirmations
FlushNext == FlushSend \/ FlushDecide \/ FlushTimeout \/ FlushLoop

\* the reports of the radio
RadioNext == TxDone \/ TxFailed

SenderNext ==
  \/ AppWriteByte
  \/ \E size \in 0..(MTU + 1) : AppWrite(size)
  \/ WriteLoop
  \/ WriteTail
  \/ AppFlush
  \/ FlushNext
  \/ RadioNext

ReceiverNext ==
  \/ AppRead
  \/ \E size \in 1..MTU : AppReadBytes(size)
  \/ ReadBytesLoop
  \/ AppPeek

\* a sender and a receiver joined by the radio, both with sequence numbers:
\* the sender writes bytes and flushes, the receiver reads
Init ==
  /\ InitSender({[DefaultFcf EXCEPT !.ackRequest = a] : a \in {0, 1}},
                1..MaxRetry, {1})
  /\ InitReceiver({0})
  /\ UnitsIdle

\* every notification of the radio arrives within the confirmation timeout
Next ==
  \/ AppWriteByte
  \/ \E size \in 1..MTU : AppWrite(size)
  \/ WriteLoop
  \/ WriteTail
  \/ AppFlush
  \/ FlushSend
  \/ FlushDecide
  \/ FlushLoop
  \/ RadioNext
  \/ Deliver
  \/ AppRead
  \/ \E size \in 1..MTU : AppReadBytes(size)
  \/ ReadBytesLoop

Spec == Init /\ [][Next]_vars

\* the same with peek() among the calls of the receiving application
NextDuplex == Next \/ AppPeek

SpecDuplex == Init /\ [][NextDuplex]_vars

\* the sending stream and the radio alone
InitSend ==
  /\ InitSender(ConfiguredFcfs, 1..MaxRetry, {1, 255})
  /\ InitReceiver({0})
  /\ UnitsIdle

SpecSend == InitSend /\ [][SenderNext]_vars

\* the receiving stream fed by an arbitrary peer
InitRecv ==
  /\ InitSender({DefaultFcf}, {2}, {1})
  /\ InitReceiver({0, 1})
  /\ UnitsIdle

NextRecv ==
  \/ \E seq \in PeerSequenceNumbers, supp \in {0, 1}, len \in 0..MTU :
       Inject(seq, supp, len)
  \/ \E seq \in {0, 1}, declared \in {1, 5} : InjectCut(seq, declared)
  \/ ReceiverNext

SpecRecv == InitRecv /\ [][NextRecv]_vars

\* the RX buffer sizes an application configures: smaller and larger than
\* the one begin() sets
ConfiguredSizes == {RxBufferSize - 1, RxBufferSize + 1}

\* setRxBufferSize(size) called before begin()
ConfigureRxBuffer(size) == ~is_active /\ SetRxBufferSize(size)

\* read() called while the transceiver is active
SessionRead == is_active /\ AppRead

\* a stream that writes, flushes and reads while frames and reports of the
\* radio arrive, is ended and begun again; the application reads only
\* while the transceiver is active
InitSession ==
  /\ InitSender({[DefaultFcf EXCEPT !.ackRequest = a] : a \in {0, 1}},
                {1}, {1})
  /\ InitReceiver({0})
  /\ UnitsIdle

NextSession ==
  \/ AppWriteByte
  \/ AppFlush
  \/ FlushSend
  \/ FlushDecide
  \/ FlushLoop
  \/ RadioNext
  \/ \E seq \in {0, 1}, len \in 1..MTU : Inject(seq, 0, len)
  \/ SessionRead
  \/ \E size \in ConfiguredSizes : ConfigureRxBuffer(size)
  \/ StreamEnd
  \/ \E ok \in BOOLEAN : StreamBegin(ok)

SpecSession == InitSession /\ [][NextSession]_vars

\* a RingBuffer of any small size under arbitrary calls
InitRing ==
  /\ InitSender({DefaultFcf}, {2}, {1})
  /\ InitReceiver({0})
  /\ ring \in {RB_new(size) : size \in 0..MaxRingSize}
  /\ ringlog = NoRingCall
  /\ codec = NoCodecCall

NextRing ==
  \/ RingWrite
  \/ \E len \in 0..(MaxRingSize + 1) : RingWriteArray(len)
  \/ RingRead
  \/ \E len \in 0..(MaxRingSize + 1) : RingReadArray(len)
  \/ RingPeek
  \/ RingClear
  \/ \E new_size \in 0..MaxRingSize : RingResize(new_size)

SpecRing == InitRing /\ [][NextRing]_vars

\* a Frame object, default-constructed, under arbitrary calls of its address
\* setters and of parse
InitFrame ==
  /\ InitSender({DefaultFcf}, {2}, {1})
  /\ InitReceiver({0})
  /\ ring = RB_new(0)
  /\ ringlog = NoRingCall
  /\ codec = [op |-> "new", frame |-> DefaultFrame, data |-> <<>>]

NextFrame ==
  \/ \E address \in FrameAddresses : FrameSetSourceAddress(address)
  \/ \E address \in FrameAddresses : FrameSetDestinationAddress(address)
  \/ \E data \in FrameBytes : FrameParse(data)

SpecFrame == InitFrame /\ [][NextFrame]_vars

\* the codec applied to every Frame value of CodecFrames
InitCodec ==
  /\ InitSender({DefaultFcf}, {2}, {1})
  /\ InitReceiver({0})
  /\ ring = RB_new(0) /\ ringlog = NoRingCall
  /\ codec \in {[op |-> "frame", frame |-> f, data |-> <<>>, len |-> 0,
                 parsed |-> [ok |-> FALSE, frame |-> DefaultFrame,
                             offset |-> 0]] : f \in CodecFrames}

NextCodec ==
  \/ CodecBuild
  \/ \E declared \in 0..(codec.len - 1) : CodecCut(declared)
  \/ \E old \in {DefaultFrame, UsedFrame} : CodecParse(old)

SpecCodec == InitCodec /\ [][NextCodec]_vars

(***************************************************************************)
(* Properties of the sending stream, read off the record of the last       *)
(* flush (flushlog).                                                       *)
(***************************************************************************)
Outcomes(log) == {log.attempts[i].outcome : i \in 1..Len(log.attempts)}

FlushReturned(mode) == flushlog.mode = mode /\ flushlog.done

\* C5: with confirmations and a retry budget of N, a flush whose attempts
\* all failed made N attempts and left the sequence number one past (mod
\* 256) the one it started from
C5_RetryExhaustion ==
  (FlushReturned("ack") /\ Outcomes(flushlog) = {"error"})
    => /\ Len(flushlog.attempts) = send_retry_count
       /\ sequenceNumber = (flushlog.seq0 + 1) % SeqMod

\* C6: with confirmations, all the attempts of one flush carry the sequence
\* number and the payload of the first
C6_SameFrameRetransmitted ==
  flushlog.mode = "ack"
    => \A i \in 1..Len(flushlog.attempts) :
         /\ flushlog.attempts[i].seq = flushlog.attempts[1].seq
         /\ flushlog.attempts[i].payload = flushlog.attempts[1].payload

\* C7: with confirmations, a flush does not return from an attempt that
\* timed out while some of the retry budget remains
C7_TimeoutRetried ==
  (FlushReturned("ack") /\ flushlog.attempts # <<>>
     /\ flushlog.attempts[Len(flushlog.attempts)].outcome = "timeout")
    => retry <= 0

\* C8: with confirmations, a confirmed attempt is the last of its flush and
\* the flush leaves the sequence number one past (mod 256) the one it
\* started from
C8_ConfirmedAdvancesOnce ==
  (FlushReturned("ack") /\ "received" \in Outcomes(flushlog))
    => /\ \A i \in 1..Len(flushlog.attempts) :
            flushlog.attempts[i].outcome = "received"
              => i = Len(flushlog.attempts)
       /\ sequenceNumber = (flushlog.seq0 + 1) % SeqMod

\* C9: without confirmations a flush makes one attempt; the sequence number
\* is one past (mod 256) its old value if the radio took the frame and
\* unchanged if it did not
C9_NoAckOnce ==
  FlushReturned("noack")
    => /\ Len(flushlog.attempts) = 1
       /\ sequenceNumber =
            IF flushlog.attempts[1].taken
            THEN (flushlog.seq0 + 1) % SeqMod
            ELSE flushlog.seq0

\* C10: at most one frame handed to the radio is without its notification
C10_StopAndWait == Len(inflight) <= 1

Max(a, b) == IF a < b THEN b ELSE a

\* C11: with confirmations, the attempts of one flush are bounded by the
\* retry budget (one attempt when the budget is below 1): no attempt is
\* made once the budget is used up
C11_AttemptsBoundedByBudget ==
  flushlog.mode = "ack"
    => Len(flushlog.attempts) <= Max(1, send_retry_count)

\* the bytes write(buffer, size) was called with
WriteBytes == [i \in 1..wsize |-> wcount - wsize + i]

\* a write(buffer, n) without confirmations, 1 <= n < MTU, is under way and
\* the TX buffer followed by the bytes not yet written is the n bytes
ShortWriteUnderWay ==
  /\ pc \in {"wloop", "wtail"}
  /\ ~isSendConfirmations
  /\ 1 <= wsize /\ wsize < MTU
  /\ RB_content(tx_buffer) \o wbuf = WriteBytes

\* write(buffer, n) is called with 1 <= n < MTU on an empty TX buffer:
\* the call is under way with the sequence number as it was
ShortWriteCalled ==
  (pc = "idle" /\ pc' = "wloop" /\ ~isSendConfirmations
     /\ RB_isEmpty(tx_buffer) /\ 1 <= wsize' /\ wsize' < MTU)
    => ShortWriteUnderWay' /\ UNCHANGED <<sequenceNumber, inflight>>

\* no step of the loop of that write hands the radio a frame or moves the
\* sequence number
ShortWriteLoops ==
  (ShortWriteUnderWay /\ pc = "wloop")
    => /\ ShortWriteUnderWay'
       /\ UNCHANGED <<sequenceNumber, flushlog>>
       /\ \/ inflight' = inflight
          \/ inflight # <<>> /\ inflight' = Tail(inflight)

\* the end of that write makes one attempt, with the n bytes and the
\* sequence number as it was; the frame the radio took parses back to them
ShortWriteSends ==
  (ShortWriteUnderWay /\ pc = "wtail" /\ pc' # "wtail")
    => /\ pc' = "idle"
       /\ Len(flushlog'.attempts) = 1
       /\ flushlog'.attempts[1].payload = WriteBytes
       /\ flushlog'.attempts[1].seq = sequenceNumber
       /\ RB_isEmpty(tx_buffer')
       /\ IF flushlog'.attempts[1].taken
          THEN /\ Len(inflight') = Len(inflight) + 1
               /\ SubSeq(inflight', 1, Len(inflight)) = inflight
               /\ \E r \in {Parse(inflight'[Len(inflight')].bytes,
                                  DefaultFrame)} :
                    /\ r.ok
                    /\ r.frame.payloadLen = wsize
                    /\ r.frame.payload = WriteBytes
                    /\ frame_control_field.sequenceNumberSuppression = 0
                         => r.frame.sequenceNumber = sequenceNumber
          ELSE inflight' = inflight

IsPrefix(s, t) == Len(s) <= Len(t) /\ s = SubSeq(t, 1, Len(s))

StrictlyIncreasing(s) ==
  \A i \in 1..Len(s) : \A j \in 1..Len(s) : i < j => s[i] < s[j]

\* C1: end to end, the payload bytes the receiver accepts into its stream
\* are bytes written by the sender, each at most once and in write order
C1_AtMostOnceInOrder == StrictlyIncreasing(accepted)

\* C2: a receive() that parsed a frame repeating the last accepted sequence
\* number returned false and left the RX buffer, the last accepted sequence
\* number and the pending state as they were; and with sequence numbers on,
\* no frame repeating the last accepted sequence number is accepted
C2_DuplicateSuppression ==
  /\ rcv.kind = "dup" => (~rcv.rc /\ rcv.after = rcv.before)
  /\ (isSequenceNumbers /\ rcv.kind \in {"stored", "deferred"}
        /\ rcv.before.last_seq # -1)
       => rcv.seq # rcv.before.last_seq

\* a frame with a payload was accepted and the next one, repeating its
\* sequence number, has been parsed
C2_Witness ==
  /\ rcv.kind = "dup"
  /\ accepted # <<>>
  /\ rcv.seq = last_seq

\* C3: the call that clears the pending state puts the payload of the
\* pending frame, whole and unaltered, behind what the RX buffer held
C3_PendingDelivered ==
  rcv.kind = "pending_drain"
    => /\ ~rcv.after.is_open_frame
       /\ RB_content(rcv.after.rx_buffer) =
            RB_content(rcv.before.rx_buffer) \o ParsedPayload(frame)

\* C4: the bytes handed to the application are a prefix of the payloads of
\* the accepted frames in their order of arrival
C4_StreamIntegrity == IsPrefix(app_read, accepted)

(***************************************************************************)
(* Properties of RingBuffer, read off the record of the last call          *)
(* (ringlog).                                                              *)
(***************************************************************************)
\* C12: after any calls, available() + availableForWrite() is the capacity
\* and available() lies between 0 and the capacity
C12_RingAccounting ==
  /\ RB_available(ring) + RB_availableForWrite(ring) = RB_size(ring)
  /\ 0 <= RB_available(ring)
  /\ RB_available(ring) <= RB_size(ring)

\* a write was refused by a full buffer whose content wraps around
C12_Witness ==
  /\ ringlog.op = "write" /\ ~ringlog.ret
  /\ RB_isFull(ring) /\ ring.capacity > 1 /\ ring.head > 0

C15_RingFifo ==
  /\ ringlog.taken \o RB_content(ring) = ringlog.written
  /\ (ringlog.op = "peek" /\ ringlog.ret)
       => (ringlog.out = RB_readValue(ring) /\ ring = ringlog.before
           /\ ringlog.out = Head(RB_content(ring)))

\* bytes were read and the stored bytes wrap around the end of the array
C15_Witness ==
  /\ ringlog.op = "read"
  /\ Len(ringlog.taken) >= 2
  /\ RB_available(ring) >= 2
  /\ ring.tail <= ring.head /\ ring.tail > 0

(***************************************************************************)
(* Properties of the codec, read off codec.                                *)
(***************************************************************************)
\* bytes an address of the given mode takes on the wire
FieldLen(mode) ==
  CASE mode = SHORT -> 2 [] mode = EXTENDED -> 8 [] OTHER -> 0

\* header bytes the FCF calls for: FCF, sequence number, PAN IDs, addresses
HeaderLen(fcf) ==
  2 + (IF fcf.sequenceNumberSuppression = 0 THEN 1 ELSE 0)
    + (IF fcf.destAddrMode # NONE THEN 2 ELSE 0)
    + FieldLen(fcf.destAddrMode)
    + (IF fcf.srcAddrMode # NONE /\ fcf.panIdCompression = 0 THEN 2 ELSE 0)
    + FieldLen(fcf.srcAddrMode)

\* the invariant of a Frame: with PAN compression and a source address the
\* source PAN ID is the destination PAN ID
ValidFrame(f) ==
  (f.fcf.panIdCompression = 1 /\ f.fcf.srcAddrMode # NONE)
    => f.srcPanId = f.destPanId

\* parse succeeded with the FCF, the sequence number where not suppressed,
\* the addresses over the length of their mode and the payload of f
SameButPanIds(f, r) ==
  /\ r.ok
  /\ r.frame.fcf = f.fcf
  /\ f.fcf.sequenceNumberSuppression = 0
       => r.frame.sequenceNumber = f.sequenceNumber
  /\ SubSeq(r.frame.destAddress, 1, FieldLen(f.fcf.destAddrMode))
       = SubSeq(f.destAddress, 1, FieldLen(f.fcf.destAddrMode))
  /\ SubSeq(r.frame.srcAddress, 1, FieldLen(f.fcf.srcAddrMode))
       = SubSeq(f.srcAddress, 1, FieldLen(f.fcf.srcAddrMode))
  /\ r.frame.payloadLen = f.payloadLen
  /\ r.frame.payload = SubSeq(f.payload, 1, f.payloadLen)

\* C16, as stated: parse(build(frame)) of a valid Frame succeeds and gives
\* the FCF, the sequence number where not suppressed, both PAN IDs, both
\* addresses and the payload of the Frame
C16_RoundTrip ==
  (codec.op = "parsed" /\ ValidFrame(codec.frame))
    => /\ SameButPanIds(codec.frame, codec.parsed)
       /\ codec.parsed.frame.destPanId = codec.frame.destPanId
       /\ codec.parsed.frame.srcPanId = codec.frame.srcPanId

\* C16, amended: the same with the PAN IDs compared where the wire carries
\* them: the destination PAN ID when a destination address is present, the
\* source PAN ID when a source address is present and either PAN
\* compression is off or a destination address is present
C16_RoundTripOnWire ==
  (codec.op = "parsed" /\ ValidFrame(codec.frame))
    => /\ SameButPanIds(codec.frame, codec.parsed)
       /\ codec.frame.fcf.destAddrMode # NONE
            => codec.parsed.frame.destPanId = codec.frame.destPanId
       /\ (codec.frame.fcf.srcAddrMode # NONE
             /\ (codec.frame.fcf.panIdCompression = 0
                   \/ codec.frame.fcf.destAddrMode # NONE))
            => codec.parsed.frame.srcPanId = codec.frame.srcPanId

\* a frame with an extended destination, a short source, its own source
\* PAN ID, a sequence number and a payload went through build and parse
C16_Witness ==
  /\ codec.op = "parsed" /\ codec.parsed.ok
  /\ codec.frame.fcf.destAddrMode = EXTENDED
  /\ codec.frame.fcf.srcAddrMode = SHORT
  /\ codec.frame.fcf.panIdCompression = 0
  /\ codec.frame.fcf.sequenceNumberSuppression = 0
  /\ codec.frame.srcPanId # codec.frame.destPanId
  /\ codec.frame.payloadLen = 2
  /\ codec.parsed.frame.srcPanId = 22136

\* C17: for destination and source modes among None, Short and Extended,
\* build returns, and stores in byte 0, the header bytes the FCF calls for
\* plus the payload length plus 2, and the last byte is the 0x00 terminator
C17_HeaderLength ==
  (codec.op = "built"
     /\ codec.frame.fcf.destAddrMode \in {NONE, SHORT, EXTENDED}
     /\ codec.frame.fcf.srcAddrMode \in {NONE, SHORT, EXTENDED})
    => /\ codec.len = HeaderLen(codec.frame.fcf) + codec.frame.payloadLen + 2
       /\ codec.data[1] = codec.len
       /\ Len(codec.data) = codec.len
       /\ codec.data[Len(codec.data)] = 0

\* a frame with two extended addresses, both PAN IDs, a sequence number and
\* a payload was built
C17_Witness ==
  /\ codec.op = "built"
  /\ codec.frame.fcf.destAddrMode = EXTENDED
  /\ codec.frame.fcf.srcAddrMode = EXTENDED
  /\ codec.frame.fcf.panIdCompression = 0
  /\ codec.frame.fcf.sequenceNumberSuppression = 0
  /\ codec.frame.payloadLen = 2
  /\ codec.len = 27

\* C18: a successful parse of bytes whose FCF has a source address leaves,
\* with PAN compression, srcPanId equal to destPanId and has consumed no
\* source PAN bytes; without it, srcPanId is the little-endian value of the
\* two bytes behind the destination address
C18_PanCompressionOnParse ==
  (codec.op \in {"parsed", "cutparsed"} /\ codec.parsed.ok
     /\ codec.parsed.frame.fcf.srcAddrMode # NONE)
    => /\ codec.parsed.offset = 1 + HeaderLen(codec.parsed.frame.fcf)
       /\ IF codec.parsed.frame.fcf.panIdCompression = 1
          THEN codec.parsed.frame.srcPanId = codec.parsed.frame.destPanId
          ELSE codec.parsed.frame.srcPanId =
                 At(codec.data,
                    codec.parsed.offset
                      - FieldLen(codec.parsed.frame.fcf.srcAddrMode) - 2)
                 + 256 * At(codec.data,
                            codec.parsed.offset
                              - FieldLen(codec.parsed.frame.fcf.srcAddrMode)
                              - 1)

\* bytes with PAN compression, both addresses and a destination PAN ID that
\* is not 0 were parsed into a Frame object that held other PAN IDs
C18_Witness ==
  /\ codec.op = "parsed" /\ codec.parsed.ok
  /\ codec.parsed.frame.fcf.panIdCompression = 1
  /\ codec.parsed.frame.fcf.srcAddrMode = SHORT
  /\ codec.parsed.frame.fcf.destAddrMode = SHORT
  /\ codec.frame.srcPanId # codec.frame.destPanId
  /\ codec.parsed.frame.srcPanId = 4660

\* C19: parse of a built frame whose declared length is cut so that a field
\* the FCF calls for is cut off returns false, and the bytes it read lie
\* before the declared length
C19_TruncationSafety ==
  (codec.op = "cutparsed"
     /\ codec.data[1] < 1 + HeaderLen(codec.frame.fcf))
    => /\ ~codec.parsed.ok
       /\ codec.parsed.offset <= codec.data[1]

(***************************************************************************)
(* Properties of read() and peek(), read off rcv: the operation, the value *)
(* it returned and the RX buffer after its receive().                      *)
(***************************************************************************)
\* C21: read() returns the next byte of the stream when the RX buffer holds
\* data after receive() and -1 when it holds none; peek() returns -1 when
\* it holds none and leaves the RX buffer as receive() left it
C21_ReadReturns ==
  /\ rcv.op = "read"
       => IF RB_isEmpty(rcv.after.rx_buffer)
          THEN rcv.ret = -1
          ELSE rcv.ret = Head(RB_content(rcv.after.rx_buffer))
  /\ rcv.op = "peek"
       => /\ RB_isEmpty(rcv.after.rx_buffer) => rcv.ret = -1
          /\ rx_buffer = rcv.after.rx_buffer

\* the payload bytes the frames queued in mb will deliver to a receiver whose
\* last accepted sequence number is last and whose Frame object holds f
RECURSIVE Deliverable(_, _, _)
Deliverable(mb, last, f) ==
  IF mb = <<>> THEN 0
  ELSE CHOOSE n \in {IF ~p.ok
                     THEN Deliverable(Tail(mb), last, p.frame)
                     ELSE IF isSequenceNumbers
                             /\ IsDuplicate(p.frame.sequenceNumber, last)
                     THEN Deliverable(Tail(mb), last, p.frame)
                     ELSE p.frame.payloadLen
                            + Deliverable(Tail(mb),
                                          IF isSequenceNumbers
                                          THEN p.frame.sequenceNumber
                                          ELSE last,
                                          p.frame) :
                     p \in {Parse(Head(mb), f)}} : TRUE

\* the payload bytes accepted or queued that readBytes has not handed out
Undelivered ==
  (IF is_open_frame THEN frame.payloadLen ELSE 0)
    + Deliverable(message_buffer, last_seq, frame)

\* the step is one of the receiving stream's
ReceiverStep == UNCHANGED <<injected, senderVars, inflight>>

\* C22: a readBytes(buffer, size) whose loop was not ended by the read
\* timeout returns size bytes whenever the RX buffer, the pending frame and
\* the queued frames together held at least size deliverable bytes, and
\* never more than size bytes
C22_ReadBytesSatisfied ==
  [][(ReceiverStep /\ rcv'.op = "readBytes" /\ ~rcv'.rc)
       => /\ rcv'.ret <= rcv'.size
          /\ rcv'.ret + Undelivered' >= rcv'.size => rcv'.ret = rcv'.size]_vars

(***************************************************************************)
(* Properties of the session.                                              *)
(***************************************************************************)
\* C23: after end() the stream has no byte available, the TX buffer is
\* empty and no inbound frame is pending
C23_TeardownDiscards ==
  ~is_active
    => /\ RB_available(rx_buffer) = 0
       /\ RB_isEmpty(tx_buffer)
       /\ ~is_open_frame

\* the step is a transmit-done or transmit-failed notification
NotificationStep == inflight # <<>> /\ inflight' = Tail(inflight)

\* C24: a transmit-done or transmit-failed notification that arrives after
\* end() changes neither the confirmation state nor the last transmit error
C24_LateNotificationNoOp ==
  [][(~is_active /\ NotificationStep)
       => UNCHANGED <<send_confirmation_state, last_tx_error>>]_vars

(***************************************************************************)
(* Properties of receive() on malformed frames and of the acceptance rule. *)
(***************************************************************************)
\* what frame.parse makes of the packet at the head of the message buffer
HeadParsed == Parse(Head(message_buffer), frame)

\* C25: a receive() whose frame failed to parse returned false and left the
\* RX buffer, the last accepted sequence number and the pending flag as
\* they were; and the next receive() that finds a well-formed frame that is
\* no repetition takes it: its payload is accepted and stored or kept
\* pending
C25_ParseFailureRecovered ==
  [][/\ (ReceiverStep /\ rcv'.kind = "parse_fail")
          => /\ ~rcv'.rc
             /\ rcv'.after = rcv'.before
             /\ rcv'.before = [rx_buffer |-> rx_buffer, last_seq |-> last_seq,
                               is_open_frame |-> is_open_frame]
             /\ last_seq' = last_seq /\ is_open_frame' = is_open_frame
             /\ accepted' = accepted
     /\ (ReceiverStep /\ rcv.kind = "parse_fail" /\ rcv'.kind # "none"
           /\ message_buffer # <<>>)
          => \E p \in {HeadParsed} :
               (p.ok /\ ~(isSequenceNumbers
                            /\ p.frame.sequenceNumber = last_seq))
                 => /\ rcv'.kind \in {"stored", "deferred"}
                    /\ accepted' = accepted \o ParsedPayload(p.frame)
                    /\ rcv'.kind = "stored"
                         => RB_content(rcv'.after.rx_buffer) =
                              RB_content(rx_buffer) \o ParsedPayload(p.frame)
    ]_vars

\* a frame failed to parse while the RX buffer held a byte of an accepted
\* frame and a last sequence number was recorded
C25_Witness ==
  /\ rcv.kind = "parse_fail"
  /\ RB_available(rcv.before.rx_buffer) > 0
  /\ rcv.before.last_seq # -1

\* C26: with sequence numbers enabled, a receive() that parsed a frame
\* accepts its payload, behind the payloads accepted before, and records its
\* sequence number as the last accepted one exactly when no frame was
\* accepted since begin() or its sequence number differs from the last
\* accepted one, whatever the distance between the two; otherwise it
\* leaves the receiver as it was
C26_AcceptanceRule ==
  [][(ReceiverStep /\ isSequenceNumbers
        /\ rcv'.kind \in {"dup", "stored", "deferred"})
       => \E p \in {HeadParsed} :
            IF last_seq = -1 \/ p.frame.sequenceNumber # last_seq
            THEN /\ rcv'.kind \in {"stored", "deferred"}
                 /\ last_seq' = p.frame.sequenceNumber
                 /\ accepted' = accepted \o ParsedPayload(p.frame)
                 /\ rcv'.kind = "stored"
                      => RB_content(rcv'.after.rx_buffer) =
                           RB_content(rx_buffer) \o ParsedPayload(p.frame)
                 /\ rcv'.kind = "deferred" => is_open_frame'
            ELSE /\ rcv'.kind = "dup"
                 /\ last_seq' = last_seq
                 /\ accepted' = accepted
                 /\ rcv'.after = rcv'.before
    ]_vars

\* a frame was accepted and stored whose sequence number neither repeats
\* nor follows the last accepted one
C26_Witness ==
  /\ isSequenceNumbers
  /\ rcv.kind = "stored"
  /\ rcv.before.last_seq # -1
  /\ rcv.seq # (rcv.before.last_seq + 1) % 256
  /\ rcv.seq < rcv.before.last_seq
  /\ Len(accepted) >= 2

(***************************************************************************)
(* The structure of a RingBuffer.                                          *)
(***************************************************************************)
\* (tail - head) mod C
TailAhead(rb) == (rb.tail - rb.head + rb.capacity) % rb.capacity

\* count within 0..C, isFull() and isEmpty() as the count tells, and the
\* buffer empty with capacity n after resize(n)
RingCountAndResize ==
  /\ 0 <= ring.count /\ ring.count <= ring.capacity
  /\ RB_isFull(ring) <=> RB_available(ring) = RB_size(ring)
  /\ RB_isEmpty(ring) <=> RB_available(ring) = 0
  /\ ringlog.op = "resize"
       => /\ RB_isEmpty(ring)
          /\ RB_size(ring) = ringlog.arg[1]
          /\ Len(ring.buffer) = ringlog.arg[1]
          /\ RB_content(ring) = <<>>

\* C27, as stated: in every reachable state count is in 0..C and equals
\* (tail - head) mod C, isFull() holds exactly when count is C, isEmpty()
\* exactly when count is 0, and after resize(n) the buffer is empty with
\* capacity n
C27_RingStructure ==
  /\ RingCountAndResize
  /\ ring.capacity > 0 => ring.count = TailAhead(ring)

\* C27, amended: the same with count equal to (tail - head) mod C unless
\* the buffer is full, where tail equals head and count is C
C27_RingStructureModC ==
  /\ RingCountAndResize
  /\ ring.capacity > 0
       => /\ ring.head \in 0..(ring.capacity - 1)
          /\ ring.tail \in 0..(ring.capacity - 1)
          /\ IF RB_isFull(ring)
             THEN ring.tail = ring.head
             ELSE ring.count = TailAhead(ring)

\* a buffer of capacity 3 holds 2 bytes around the end of its storage
C27_Witness ==
  /\ ring.capacity = 3 /\ ring.count = 2
  /\ ring.tail < ring.head
  /\ ringlog.taken # <<>>

(***************************************************************************)
(* Further properties of the codec.                                        *)
(***************************************************************************)
\* C28: whenever parse returns true the payload length is not negative and
\* is the length byte less 2 less the length of the header, and a length
\* byte too small for the FCF makes parse return false
C28_PayloadLength ==
  codec.op \in {"parsed", "cutparsed"}
    => /\ codec.parsed.ok
            => /\ codec.parsed.frame.payloadLen >= 0
               /\ codec.parsed.frame.payloadLen =
                    codec.data[1] - 2 - HeaderLen(codec.parsed.frame.fcf)
       /\ codec.data[1] < 2 + IEEE802154_FCF_SIZE => ~codec.parsed.ok

\* an address mode of Reserved read as None
AsNone(mode) == IF mode = RESERVED THEN NONE ELSE mode

\* the FCF with its Reserved address modes read as None
ReservedAsNone(fcf) ==
  [fcf EXCEPT !.destAddrMode = AsNone(fcf.destAddrMode),
              !.srcAddrMode = AsNone(fcf.srcAddrMode)]

HasReserved(fcf) == fcf.destAddrMode = RESERVED \/ fcf.srcAddrMode = RESERVED

\* C29: for a Frame with a Reserved address mode build emits the header
\* fields it emits for None in its place, and parse reads those fields: the
\* address has length 0 and no PAN ID is written or read on its account
C29_ReservedLikeNone ==
  /\ (codec.op = "built" /\ HasReserved(codec.frame.fcf))
       => /\ codec.len = HeaderLen(ReservedAsNone(codec.frame.fcf))
                           + codec.frame.payloadLen + 2
          /\ codec.data[1] = codec.len
  /\ (codec.op = "parsed" /\ codec.parsed.ok
        /\ HasReserved(codec.parsed.frame.fcf))
       => /\ codec.parsed.frame.fcf.destAddrMode = RESERVED
               => codec.parsed.frame.destAddrLen = 0
          /\ codec.parsed.frame.fcf.srcAddrMode = RESERVED
               => codec.parsed.frame.srcAddrLen = 0
          /\ codec.parsed.offset =
               1 + HeaderLen(ReservedAsNone(codec.parsed.frame.fcf))

\* C30: after any calls of setSourceAddress, setDestinationAddress and
\* successful parse on a Frame, srcAddrLen and destAddrLen are 0, 2 or 8 and
\* are the length their address mode implies
C30_AddressInvariant ==
  codec.op \in {"setSourceAddress", "setDestinationAddress", "parse"}
    => /\ codec.frame.srcAddrLen \in {0, 2, 8}
       /\ codec.frame.destAddrLen \in {0, 2, 8}
       /\ codec.frame.srcAddrLen = FieldLen(codec.frame.fcf.srcAddrMode)
       /\ codec.frame.destAddrLen = FieldLen(codec.frame.fcf.destAddrMode)

(***************************************************************************)
(* Properties of the pending inbound frame.                                *)
(***************************************************************************)
\* the payload bytes accepted so far are the bytes read, the bytes in the
\* RX buffer and, last, the bytes of the pending frame
PendingIsLast ==
  Len(accepted) = Len(app_read) + RB_available(rx_buffer)
                    + (IF is_open_frame THEN frame.payloadLen ELSE 0)

\* C31: while a frame is pending, a receive() pulls no frame from the
\* message buffer: it either leaves the receiver as it was or puts the
\* bytes of the pending frame behind the content of the RX buffer; the
\* pending frame is the last one accepted, so that its bytes enter the RX
\* buffer before those of any later frame
C31_PendingDrainedFirst ==
  [][/\ (ReceiverStep /\ is_open_frame)
          => /\ message_buffer' = message_buffer
             /\ accepted' = accepted
             /\ last_seq' = last_seq
             /\ rcv'.kind \in {"none", "pending_wait", "pending_drain"}
             /\ rcv'.kind = "pending_wait"
                  => /\ is_open_frame' /\ ~rcv'.rc
                     /\ rcv'.after = rcv'.before
                     /\ frame.payloadLen > RB_availableForWrite(rx_buffer)
             /\ rcv'.kind = "pending_drain"
                  => /\ ~is_open_frame' /\ rcv'.rc
                     /\ RB_available(rcv'.after.rx_buffer) =
                          RB_available(rx_buffer) + frame.payloadLen
                     /\ SubSeq(RB_content(rcv'.after.rx_buffer), 1,
                               RB_available(rx_buffer)) = RB_content(rx_buffer)
     /\ PendingIsLast'
    ]_vars

\* a frame was pending while another one was queued behind it, and the
\* pending one has been put into the RX buffer with the other still queued
C31_Witness ==
  /\ rcv.kind = "pending_drain"
  /\ message_buffer # <<>>
  /\ ~is_open_frame
  /\ rcv.before.is_open_frame

(***************************************************************************)
(* Properties of the confirmation state.                                   *)
(***************************************************************************)
\* sendWithConfirmations is under way
InFlush == pc \in {"f_send", "f_wait", "f_cond"}

\* send() of an attempt: the radio took the frame, or refused it
TransmitIssued == pc = "f_send" /\ pc' = "f_wait" /\ inflight' # inflight
TransmitRefused == pc = "f_send" /\ pc' = "f_wait" /\ inflight' = inflight

\* C32: an attempt waits for its confirmation from the moment its transmit
\* is issued; the state becomes confirmed only through a success
\* notification and failed only through a failure notification or a
\* refused transmit; flush() returns only from the confirmed or the failed
\* state, a timeout having made the attempt fail; and a frame whose retry
\* budget is used up is not confirmed
C32_ArqStateMachine ==
  [][/\ TransmitIssued
          => send_confirmation_state' = WAITING_FOR_CONFIRMATION
     /\ (/\ send_confirmation_state' = CONFIRMATION_RECEIVED
         /\ send_confirmation_state # CONFIRMATION_RECEIVED)
          => NotificationStep
     /\ (/\ send_confirmation_state' = CONFIRMATION_ERROR
         /\ send_confirmation_state # CONFIRMATION_ERROR)
          => (NotificationStep \/ TransmitRefused)
     /\ (InFlush /\ ~InFlush')
          => send_confirmation_state \in
               {CONFIRMATION_RECEIVED, CONFIRMATION_ERROR}
     /\ (InFlush' /\ retry' <= 0)
          => send_confirmation_state' # CONFIRMATION_RECEIVED
    ]_vars

(***************************************************************************)
(* Properties of the segmentation of the written bytes into frames.        *)
(***************************************************************************)
\* the bytes write() has accepted so far, in the order they were written
AcceptedBytes == [i \in 1..(wcount - Len(wbuf)) |-> i]

\* the bytes drained from the TX buffer that are still to be passed to send()
Drained == IF pc = "f_send" /\ attempt = 0 THEN tmp ELSE <<>>

\* C33: every frame write and flush pass to the radio's send() carries at
\* most MTU bytes of payload; the payloads of the frames passed on are,
\* joined in their order, a prefix of the bytes write() accepted, and the
\* rest of the accepted bytes is what is staged; the TX buffer is never
\* left holding MTU bytes
C33_Segmentation ==
  /\ \A i \in 1..Len(flushlog.attempts) :
       Len(flushlog.attempts[i].payload) <= MTU
  /\ IsPrefix(flushlog.handed, AcceptedBytes)
  /\ flushlog.handed \o Drained \o RB_content(tx_buffer) = AcceptedBytes
  /\ ~RB_isFull(tx_buffer)

\* three bytes written have gone out as a frame of MTU bytes and a frame
\* with the rest
C33_Witness ==
  /\ flushlog.handed = <<1, 2, 3>>
  /\ flushlog.done /\ pc = "idle"
  /\ Len(flushlog.attempts[1].payload) = 1

(***************************************************************************)
(* Properties of the two directions of the stream.                         *)
(***************************************************************************)
\* a step of read(), readBytes() or peek(), receive() included
InboundCallStep == rcv' # rcv \/ app_read' # app_read \/ rpc' # rpc

\* a step of write() or flush()
OutboundCallStep ==
  \/ calls' # calls \/ pc' # pc \/ wbuf' # wbuf \/ written' # written
  \/ flushlog' # flushlog \/ tx_buffer' # tx_buffer

\* C34: a step of read(), readBytes() or peek() leaves the outbound
\* sequence number, the TX buffer and the confirmation state as they were,
\* and a step of write() or flush() leaves the last accepted inbound
\* sequence number, the RX buffer and the pending inbound frame as they were
C34_PathsIndependent ==
  [][/\ InboundCallStep
          => UNCHANGED <<sequenceNumber, tx_buffer, send_confirmation_state>>
     /\ OutboundCallStep
          => UNCHANGED <<last_seq, rx_buffer, is_open_frame, frame>>
    ]_vars

\* a frame is pending while bytes are staged for sending, and a peek() has
\* been made since
C34_Witness ==
  /\ is_open_frame
  /\ RB_available(tx_buffer) > 0
  /\ rcv.op = "peek"
  /\ sequenceNumber > 1

(***************************************************************************)
(* Properties of the configured RX buffer size.                            *)
(***************************************************************************)
\* a call of begin()
BeginStep == sessions' = sessions + 1

\* C35: the capacity the RX buffer was given with setRxBufferSize() before
\* begin() is the capacity it has when begin() has returned
C35_ConfiguredSizeKept ==
  [][BeginStep => RB_size(rx_buffer') = RB_size(rx_buffer)]_vars

(***************************************************************************)
(* Properties of the notifications a flush takes.                          *)
(***************************************************************************)
\* the attempt f the radio reports on is an attempt of the flush under way
OwnAttempt(f) ==
  \E i \in 1..Len(flushlog.attempts) :
    /\ flushlog.attempts[i].taken
    /\ f.bytes = Build(SendFrame(flushlog.attempts[i].seq,
                                 flushlog.attempts[i].payload))

\* C36: a notification that sets the confirmation state while
\* sendWithConfirmations waits for the outcome of an attempt reports on an
\* attempt of the frame being sent, never on an attempt of an earlier frame
C36_OwnNotification ==
  [][(pc = "f_wait" /\ NotificationStep) => OwnAttempt(Head(inflight))]_vars

(***************************************************************************)
(* Properties of the TX staging buffer between calls.                      *)
(***************************************************************************)
\* a call of write(byte)
WriteByteStep ==
  pc = "idle" /\ calls' = calls + 1 /\ wcount' = wcount + 1 /\ pc' # "wloop"

\* C37: the TX buffer is not full when a call of the stream has returned;
\* write(byte) stores its byte and returns 1; and the loop of
\* write(buffer, size) ends with all size bytes written, which is the value
\* the call returns
C37_NeverFullBetweenCalls ==
  [][/\ pc' = "idle" => ~RB_isFull(tx_buffer')
     /\ WriteByteStep
          => /\ written' = 1
             /\ RB_writeOk(tx_buffer)
             /\ (flushlog'.handed \o Drained' \o RB_content(tx_buffer'))
                  [wcount'] = wcount'
     /\ pc' = "wtail" => (written' = wsize' /\ wbuf' = <<>>)
     /\ (pc = "wtail" /\ pc' # "wtail") => written' = wsize'
    ]_vars

\* write(buffer, size) has returned size for a size above MTU
C37_Witness ==
  /\ pc = "idle"
  /\ wsize = MTU + 1
  /\ written = MTU + 1

(***************************************************************************)
(* Properties of a flush of an empty TX buffer.                            *)
(***************************************************************************)
\* the flush made last found the TX buffer empty
EmptyFlush ==
  /\ flushlog.mode # "none"
  /\ \A i \in 1..Len(flushlog.attempts) : flushlog.attempts[i].payload = <<>>
  /\ flushlog.mode = "ack" => tmp = <<>>

\* C38: a flush that finds the TX buffer empty hands no frame to the radio
\* and leaves the sequence number as it was, so that no frame the radio
\* takes has a payload of length zero
C38_EmptyFlushNoFrame ==
  /\ \A i \in 1..Len(flushlog.attempts) :
       flushlog.attempts[i].taken => flushlog.attempts[i].payload # <<>>
  /\ EmptyFlush => sequenceNumber = flushlog.seq0

(***************************************************************************)
(* Properties of write(buffer, size) at its return.                        *)
(***************************************************************************)
\* C39: when write(buffer, size) returns from its last statement, the TX
\* buffer is empty and every byte accepted has been passed on to the
\* radio's send()
C39_WriteLeavesNothingStaged ==
  [][(pc = "wtail" /\ pc' = "idle")
       => /\ RB_isEmpty(tx_buffer')
          /\ flushlog'.handed = AcceptedBytes']_vars

(***************************************************************************)
(* Properties of received frames without a sequence number.                *)
(***************************************************************************)
\* C40: a receive() that parsed a frame whose own FCF suppresses the
\* sequence number does not discard it as a repetition and leaves the last
\* accepted sequence number as it was, whatever the local FCF says
C40_SuppressedNotValidated ==
  [][(ReceiverStep /\ rcv'.kind \in {"dup", "stored", "deferred"})
       => \E p \in {HeadParsed} :
            p.frame.fcf.sequenceNumberSuppression = 1
              => /\ rcv'.kind # "dup"
                 /\ last_seq' = last_seq
    ]_vars

=============================================================================
